---- MODULE Spec2Model ----
(***************************************************************************)
(* Verification model of the synthetic-survey execution and scoring        *)
(* engine: archetype sample allocation, the token-bucket rate limiter,     *)
(* the retry-protected survey cycle, response validation, cost tracking    *)
(* and the SSR calculator's anchoring state.                               *)
(***************************************************************************)
EXTENDS Integers, Sequences, FiniteSets, TLC

\* ------------------------------------------------------------------------
\* Bounds of the model
\* ------------------------------------------------------------------------
\* share_ratio values are the rationals k / ShareDen, k in 0..ShareDen
ShareDen == 10
MaxSegments == 3
MaxTotal == 8

\* rate limiter: configuration, clock resolution and workload
requests_per_minute == 1
tokens_per_minute == 2
TicksPerMinute == 2      \* time.time() is observed in ticks of 60/TicksPerMinute s
BurstNum == 3            \* burst_multiplier = BurstNum / BurstDen = 1.5
BurstDen == 2
MaxTime == 3             \* the clock stops advancing at MaxTime ticks
NThreads == 2
MaxCalls == 2            \* limiter calls made by each caller
MaxEst == 2              \* estimated_tokens and actual_tokens range over 1..MaxEst

\* response validation: texts of up to MaxTextLen tokens
MaxTextLen == 4

\* cost tracker
MaxPromptTokens == 2     \* prompt_tokens of one call range over 1..MaxPromptTokens
MaxCost == 2             \* cost handed to record_call ranges over 0..MaxCost
MaxRecorded == 3         \* calls recorded between two resets

\* retry cycle and survey
MaxRetries == 4          \* max_retries of a direct call ranges over 0..MaxRetries
MaxBackoff == 2          \* backoff_factor of a direct call ranges over 1..MaxBackoff
MaxPersonas == 2         \* personas generated for one survey
ScoreLevels == 2         \* ssr scores are k / (ScoreLevels - 1)

\* calculator
MaxBatch == 2            \* responses in one batch

\* persona generation
MaxCount == 2            \* personas asked of one generation call
MaxSeed == 1             \* random seeds are 0..MaxSeed
RngMod == 7              \* states of a random generator
MaxSample == 2           \* sample_size of a targeted generation
MaxAttempts == 3         \* max_attempts of a targeted generation
MaxOps == 8              \* operations on one workflow
NSegments == 2           \* segments of a segmentation answer
NChoices == 2            \* choices of a categorical distribution
MaxWeight == 2           \* weights are -1..MaxWeight

VARIABLES
    \* distribute_samples_by_archetype
    archetypes,          \* input list of segments, each [segment_id, share]
    total_samples,       \* requested total
    distribution_plan,   \* returned plan, <<>> before the call
    allocPc,             \* "input" before the call, "done" after it
    \* TokenBucketRateLimiter / AsyncTokenBucketRateLimiter
    limiterKind,         \* "threaded" or "async"
    now,                 \* time.time(), in ticks
    request_tokens,      \* bucket levels, in units of 1/LevelScale token
    token_tokens,
    last_refill,
    lock,                \* holder of self._lock, NoThread when free
    stats,               \* self.stats
    pc,                  \* per caller: position inside the limiter method
    loc,                 \* per caller: local variables of the running method
    callsLeft,           \* per caller: calls it will still make
    running,             \* async: the task that holds the event loop
    \* history variables of the limiter
    grants,              \* acquire calls that left the critical section
    grantedTokens,       \* sum of their estimated_tokens
    reqRefilled,         \* total amount _refill added to request_tokens
    tokRefilled,         \* total amount _refill added to token_tokens
    reqDepletedAt,       \* last_refill when a debit left request_tokens at 0
    tokDepletedAt,       \* last_refill when a debit left token_tokens at 0
    \* validate_llm_response
    response_text,       \* the argument, a sequence of tokens
    validation,          \* the returned (is_valid, error_message)
    validPc,             \* "input" before the call, "done" after it
    \* CostTracker
    total_cost,          \* self.total_cost
    calls,               \* self.calls
    recordOps,           \* history: record_call operations since creation / reset
    recordedSum,         \* history: sum of the costs handed to them
    costLastOp,          \* history: the last operation on the tracker
    \* get_purchase_opinion_with_retry / run_survey
    svMode,              \* "direct": one call of the function, "survey": run_survey
    llm_model,
    max_retries,
    backoff_factor,
    n_personas,          \* len(personas); personas are numbered 1..n_personas
    persona_i,           \* the persona the for loop of run_survey is at
    svPc,                \* position in run_survey / in the function
    attempt,             \* loop variable of the retry loop
    reinforced,
    response,            \* value returned by the function, None or <<dict>>
    results,             \* list of SurveyResult
    aggregate,           \* value returned by run_survey, None or <<record>>
    callLog,             \* history: service calls of the current cycle
    sleepLog,            \* history: time.sleep calls of the current cycle
    cycles,              \* history: retry cycles started per persona
    svcResponses,        \* history: service calls that returned a response
    svcCost,             \* history: summed cost of those calls
    \* SSRCalculator
    embedding_fn,        \* "None" or "set"
    pos_vec,             \* NoVec while None
    neg_vec,
    initialized,         \* self._initialized
    calcOp,              \* the last operation invoked
    calcArg,             \* its arguments: the response vectors and the method
    calcResult,          \* what it returned or raised
    preInitialized,      \* history: self._initialized when it was invoked
    \* validate_anchor_orthogonality
    pos_embedding,       \* the arguments
    neg_embedding,
    orthoResult,         \* the returned AnchorValidationResult, <<>> before
    orthoPc,             \* "input" before the call, "done" after it
    \* population generation (backend persona_generation.py)
    np_state,            \* state of numpy's global generator
    refRun,              \* history: the first seeded generation call
    lastRun,             \* history: the latest generation call and its result
    genCount,            \* history: calls from refRun on, capped at 2
    \* generate_personas_targeted
    sample_size,
    target_demographics,
    max_attempts,
    personas,            \* the local list of accepted personas
    attempts,
    targetedPc,          \* "loop", "returned" or "raised"
    targetedResult,      \* what the call returned or raised, <<>> before
    \* worker threads sharing one CostTracker
    workerPc,            \* per thread: "idle", "load", "store" or "append"
    workerLoc,           \* per thread: the cost argument and the value read
    workerLeft,          \* per thread: record_call invocations still to make
    \* categorical sampling in persona generation
    weightFn,            \* the generating function that samples
    weights,             \* the configured weights, one per choice
    weightDraw,          \* the generator's draw, in 0..RngMod-1
    sampled,             \* <<>> or <<[probs, choice]>>
    \* market segmentation handing its segments to allocation
    segRatios,           \* share_ratio of each segment, in 1 / ShareDen
    segPc,               \* "start", "allocated" or "raised"
    handed,              \* <<>> or <<the ratios given to allocation>>
    \* WorkflowService
    workflow,            \* the stored SurveyWorkflow record
    generationCompleted, \* complete_persona_generation moved it to surveying
    wfOps                \* operations saved so far

allocVars == <<archetypes, total_samples, distribution_plan, allocPc>>

limiterVars == <<limiterKind, now, request_tokens, token_tokens, last_refill,
                 lock, stats, pc, loc, callsLeft, running, grants,
                 grantedTokens, reqRefilled, tokRefilled, reqDepletedAt,
                 tokDepletedAt>>

validVars == <<response_text, validation, validPc>>

costVars == <<total_cost, calls, recordOps, recordedSum, costLastOp>>

surveyVars == <<svMode, llm_model, max_retries, backoff_factor, n_personas,
                persona_i, svPc, attempt, reinforced, response, results,
                aggregate, callLog, sleepLog, cycles, svcResponses, svcCost>>

calcVars == <<embedding_fn, pos_vec, neg_vec, initialized, calcOp, calcArg,
              calcResult, preInitialized>>

orthoVars == <<pos_embedding, neg_embedding, orthoResult, orthoPc>>

genVars == <<np_state, refRun, lastRun, genCount>>

targetedVars == <<sample_size, target_demographics, max_attempts, personas,
                  attempts, targetedPc, targetedResult>>
workerVars == <<workerPc, workerLoc, workerLeft>>
weightVars == <<weightFn, weights, weightDraw, sampled>>
segmentVars == <<segRatios, segPc, handed>>
workflowVars == <<workflow, generationCompleted, wfOps>>

vars == <<allocVars, limiterVars, validVars, costVars, surveyVars, calcVars,
          orthoVars, genVars, targetedVars, workerVars,
          weightVars, segmentVars, workflowVars>>

\* ------------------------------------------------------------------------
\* Generic helpers
\* ------------------------------------------------------------------------
RECURSIVE SumSeq(_)
SumSeq(s) == IF s = <<>> THEN 0 ELSE Head(s) + SumSeq(Tail(s))

Range(s) == {s[i] : i \in DOMAIN s}

SeqsUpTo(S, n) == UNION {[1..k -> S] : k \in 0..n}

\* ========================================================================
\* backend/app/services/persona_generation.py : distribute_samples_by_archetype
\* ========================================================================

\* Python int(): truncation toward zero of the rational num / den, den > 0
IntTruncRound(num, den) == (2 * num + den) \div (2 * den)
IntTrunc(num, den) ==
    IF num >= 0 THEN num \div den ELSE -((-num) \div den)

\* sorted(archetypes, key=share_ratio, reverse=True): stable, descending.
\* Insert x behind every element whose key is >= x's key.
RECURSIVE InsertDesc(_, _)
InsertDesc(x, s) ==
    IF s = <<>> THEN <<x>>
    ELSE IF Head(s).share >= x.share
         THEN <<Head(s)>> \o InsertDesc(x, Tail(s))
         ELSE <<x>> \o s

RECURSIVE SortedArchetypes(_)
SortedArchetypes(s) ==
    IF s = <<>> THEN <<>>
    ELSE InsertDesc(s[Len(s)], SortedArchetypes(SubSeq(s, 1, Len(s) - 1)))

\* The count of the i-th segment (1-based) of n sorted segments
SegmentCountNoRemainder(i, n, share, total, allocated) ==
    IntTrunc(total * share, ShareDen)
SegmentCount(i, n, share, total, allocated) ==
    IF i = n
    THEN total - allocated
    ELSE IntTrunc(total * share, ShareDen)

\* The for loop over sorted_archetypes, from index i with `allocated` so far
RECURSIVE PlanLoop(_, _, _, _)
PlanLoop(sorted, i, total, allocated) ==
    IF i > Len(sorted) THEN <<>>
    ELSE LET count == SegmentCount(i, Len(sorted), sorted[i].share,
                                   total, allocated)
         IN  <<[segment_id   |-> sorted[i].segment_id,
                count        |-> count,
                share_ratio  |-> sorted[i].share,
                actual_ratio |-> [num |-> count, den |-> total]]>>
             \o PlanLoop(sorted, i + 1, total, allocated + count)

DistributePlan(archs, total) ==
    PlanLoop(SortedArchetypes(archs), 1, total, 0)

AllocIdle ==
    /\ archetypes = <<>>
    /\ total_samples = 0
    /\ distribution_plan = <<>>
    /\ allocPc = "idle"

AllocInputs ==
    /\ archetypes \in
         UNION {{[i \in 1..k |-> [segment_id |-> i, share |-> sh[i]]] :
                   sh \in [1..k -> 0..ShareDen]} : k \in 1..MaxSegments}
    /\ total_samples \in 1..MaxTotal
    /\ distribution_plan = <<>>
    /\ allocPc = "input"

distribute_samples_by_archetype ==
    /\ allocPc = "input"
    /\ distribution_plan' = DistributePlan(archetypes, total_samples)
    /\ allocPc' = "done"
    /\ UNCHANGED <<archetypes, total_samples>>

\* ---- properties of the allocation ---------------------------------------
PlanCounts == [i \in DOMAIN distribution_plan |-> distribution_plan[i].count]
PlanShares == [i \in DOMAIN distribution_plan |-> distribution_plan[i].share_ratio]
InputShares == [i \in DOMAIN archetypes |-> archetypes[i].share]

SharesSumToOne == SumSeq(InputShares) = ShareDen

\* C1: for every segment list whose share_ratio values sum to 1.0 and every
\* total_n >= number of segments, the plan has one entry per segment, every
\* count is >= 0 and the counts sum exactly to total_n.
C1_AllocationExact ==
    (allocPc = "done" /\ SharesSumToOne /\ total_samples >= Len(archetypes))
    => /\ Len(distribution_plan) = Len(archetypes)
       /\ {distribution_plan[i].segment_id : i \in DOMAIN distribution_plan}
            = {archetypes[i].segment_id : i \in DOMAIN archetypes}
       /\ \A i \in DOMAIN distribution_plan : distribution_plan[i].count >= 0
       /\ SumSeq(PlanCounts) = total_samples

\* a plan whose floors lose samples, so that the remainder matters
C1_Witness ==
    /\ allocPc = "done" /\ SharesSumToOne
    /\ total_samples >= Len(archetypes)
    /\ Len(archetypes) = 3
    /\ \A i \in DOMAIN archetypes : archetypes[i].share > 0
    /\ distribution_plan[3].count
         > IntTrunc(total_samples * distribution_plan[3].share_ratio, ShareDen)

\* the scenario shares [0.5, 0.3, 0.2] in any input order
IsScenarioShares ==
    /\ Len(archetypes) = 3
    /\ \E p, q, r \in 1..3 :
         /\ {p, q, r} = {1, 2, 3}
         /\ 10 * archetypes[p].share = 5 * ShareDen
         /\ 10 * archetypes[q].share = 3 * ShareDen
         /\ 10 * archetypes[r].share = 2 * ShareDen

\* C2: the plan is in share_ratio-descending order, every entry but the last
\* has count = floor(total_n * share_ratio), the last has the remainder; for
\* shares [0.5, 0.3, 0.2] and total_n = 7 the counts are [3, 2, 2].
C2_FloorAndRemainder ==
    allocPc = "done"
    => LET n == Len(distribution_plan) IN
       /\ \A i \in 1..(n - 1) :
            /\ PlanShares[i] >= PlanShares[i + 1]
            /\ ShareDen * PlanCounts[i] <= total_samples * PlanShares[i]
            /\ ShareDen * (PlanCounts[i] + 1) > total_samples * PlanShares[i]
       /\ PlanCounts[n] = total_samples - SumSeq(SubSeq(PlanCounts, 1, n - 1))
       /\ (IsScenarioShares /\ total_samples = 7) => PlanCounts = <<3, 2, 2>>

C2_Witness ==
    /\ allocPc = "done" /\ IsScenarioShares /\ total_samples = 7
    /\ archetypes[1].share < archetypes[2].share
    /\ PlanCounts = <<3, 2, 2>>


\* ---- backend/app/services/research.py : segment_market_from_report -------
\* share_ratio values are counted in units of 1 / ShareDen; a normalised
\* ratio is the rational num / den.
RatioLists == [1..NSegments -> 0..ShareDen]

RECURSIVE TotalShare(_, _)
TotalShare(rs, i) == IF i = 0 THEN 0 ELSE rs[i] + TotalShare(rs, i - 1)

\* abs(total_share - 1.0) > 0.01
OffByMoreThanTolerance(total) ==
    LET d == IF total >= ShareDen THEN total - ShareDen ELSE ShareDen - total
    IN  100 * d > ShareDen

\* lines 144-149: arch["share_ratio"] = arch.get("share_ratio", 0) / total_share
segment_market_from_report(rs) ==
    LET total == TotalShare(rs, Len(rs))
    IN  IF ~OffByMoreThanTolerance(total)
        THEN [kind |-> "ok",
              ratios |-> [i \in DOMAIN rs |-> [num |-> rs[i], den |-> ShareDen]]]
        ELSE IF total = 0
        THEN [kind |-> "ZeroDivisionError", ratios |-> <<>>]
        ELSE [kind |-> "ok",
              ratios |-> [i \in DOMAIN rs |-> [num |-> rs[i], den |-> total]]]

SegmentIdle ==
    /\ segRatios = [i \in 1..NSegments |-> 0]
    /\ segPc = "idle"
    /\ handed = <<>>

\* the ratios the segmentation model answered, or a request body carried
SegmentInputs ==
    /\ segRatios \in RatioLists
    /\ segPc = "start"
    /\ handed = <<>>

\* routes/research.py run_full_pipeline: segmentation, then
\* generate_enriched_personas_from_archetypes, which calls
\* distribute_samples_by_archetype(archetypes, total_samples)
run_full_pipeline ==
    /\ segPc = "start"
    /\ LET result == segment_market_from_report(segRatios)
       IN  IF result.kind = "ok"
           THEN segPc' = "allocated" /\ handed' = <<result.ratios>>
           ELSE segPc' = "raised" /\ handed' = handed
    /\ UNCHANGED segRatios

\* routes/research.py distribute_samples: the request's archetypes, each
\* with 0 <= share_ratio <= 1, go to distribute_samples_by_archetype
distribute_samples ==
    /\ segPc = "start"
    /\ \A i \in DOMAIN segRatios : segRatios[i] >= 0 /\ segRatios[i] <= ShareDen
    /\ segPc' = "allocated"
    /\ handed' = <<[i \in DOMAIN segRatios |->
                      [num |-> segRatios[i], den |-> ShareDen]]>>
    /\ UNCHANGED segRatios

\* C25: every segment set handed to allocation has share_ratio values in
\* [0, 1] that sum to 1.0: segment_market_from_report normalises every set
\* of ratios the segmentation step can produce, and
\* distribute_samples_by_archetype only ever sees a normalised set.
C25_HandedSetNormalised ==
    /\ segPc # "raised"
    /\ handed # <<>> =>
         LET rs == handed[1]
             den == rs[1].den
         IN  /\ \A i \in DOMAIN rs : rs[i].num >= 0 /\ rs[i].num <= rs[i].den
             /\ \A i \in DOMAIN rs : rs[i].den = den
             /\ TotalShare([i \in DOMAIN rs |-> rs[i].num], Len(rs)) = den

\* ========================================================================
\* src/survey/executor.py : TokenBucketRateLimiter, AsyncTokenBucketRateLimiter
\* ========================================================================
\* Bucket levels are exact rationals: a level v stands for v / LevelScale
\* tokens, so that the refill of one tick and the burst capacity are integers.
LevelScale == TicksPerMinute * BurstDen
OneToken == LevelScale

Threads == 1..NThreads
NoThread == 0
\* a depletion time is a set: empty, or the one last_refill of the emptying debit
NoTime == {}

Min(a, b) == IF a <= b THEN a ELSE b
Max(a, b) == IF a >= b THEN a ELSE b
CeilDiv(a, b) == (a + b - 1) \div b

\* __init__: initial levels and capacities
RequestInit == requests_per_minute * LevelScale
TokenInit == tokens_per_minute * LevelScale
request_capacity == requests_per_minute * BurstNum * TicksPerMinute
token_capacity == tokens_per_minute * BurstNum * TicksPerMinute

\* refill of one tick: (capacity / 60) per second
refill_per_tick_requests == requests_per_minute * BurstDen
refill_per_tick_tokens == tokens_per_minute * BurstDen

StatsInit == [total_requests |-> 0, total_tokens |-> 0,
              waits |-> 0, total_wait_time |-> 0]

LocInit == [est |-> 0, total_wait |-> 0, wait_time |-> 0, wakeAt |-> 0,
            tmp |-> 0, diff |-> 0]

\* _refill applied to a level after `elapsed` ticks
RefilledRequests(level, elapsed) ==
    Min(request_capacity, level + elapsed * refill_per_tick_requests)
RefilledTokensUncapped(level, elapsed) ==
    level + elapsed * refill_per_tick_tokens
RefilledTokens(level, elapsed) ==
    Min(token_capacity, level + elapsed * refill_per_tick_tokens)

\* _refill as a state change (history variables record the amount added)
Refill ==
    LET elapsed == now - last_refill IN
    /\ last_refill' = now
    /\ request_tokens' = RefilledRequests(request_tokens, elapsed)
    /\ token_tokens' = RefilledTokens(token_tokens, elapsed)
    /\ reqRefilled' = reqRefilled
                      + (RefilledRequests(request_tokens, elapsed) - request_tokens)
    /\ tokRefilled' = tokRefilled
                      + (RefilledTokens(token_tokens, elapsed) - token_tokens)

\* the while condition of acquire
InsufficientAnd(req, tok, est) == req < OneToken /\ tok < est * OneToken
Insufficient(req, tok, est) == req < OneToken \/ tok < est * OneToken

\* wait_time of one loop iteration, in whole ticks: time.sleep returns at the
\* first tick at or after the requested duration, never before one tick
\* (the 0.1 s floor) and the request is capped at 60 s.
WaitTicks(req, tok, est) ==
    LET wait_for_request ==
            IF req < OneToken
            THEN CeilDiv(OneToken - req, refill_per_tick_requests) ELSE 0
        wait_for_tokens ==
            IF tok < est * OneToken
            THEN CeilDiv(est * OneToken - tok, refill_per_tick_tokens) ELSE 0
    IN  Min(Max(Max(wait_for_request, wait_for_tokens), 1), TicksPerMinute)

\* `with self._lock` can be entered
LockAlwaysAvailable == TRUE
LockAvailable == lock = NoThread

\* Scheduling: threads interleave at every step; async tasks only at awaits.
CanRun(t) == limiterKind = "threaded" \/ running \in {NoThread, t}
Keep(t) == IF limiterKind = "async" THEN t ELSE NoThread

InCritical(t) ==
    pc[t] \in {"refill", "check", "wait_refill", "sleeping",
               "debit_req_load", "debit_req_store", "debit_tok_load",
               "debit_tok_store", "stat_req_load", "stat_req_store",
               "stat_tok_load", "stat_tok_store", "unlock",
               "report_apply", "reset_apply"}

LimiterIdle ==
    /\ limiterKind = "threaded"
    /\ now = 0
    /\ request_tokens = RequestInit
    /\ token_tokens = TokenInit
    /\ last_refill = 0
    /\ lock = NoThread
    /\ stats = StatsInit
    /\ pc = [t \in Threads |-> "idle"]
    /\ loc = [t \in Threads |-> LocInit]
    /\ callsLeft = [t \in Threads |-> 0]
    /\ running = NoThread
    /\ grants = 0
    /\ grantedTokens = 0
    /\ reqRefilled = 0
    /\ tokRefilled = 0
    /\ reqDepletedAt = NoTime
    /\ tokDepletedAt = NoTime

\* a freshly constructed limiter of either kind and its callers
LimiterStart ==
    /\ limiterKind \in {"threaded", "async"}
    /\ now = 0
    /\ request_tokens = RequestInit
    /\ token_tokens = TokenInit
    /\ last_refill = 0
    /\ lock = NoThread
    /\ stats = StatsInit
    /\ pc = [t \in Threads |-> "idle"]
    /\ loc = [t \in Threads |-> LocInit]
    /\ callsLeft = [t \in Threads |-> MaxCalls]
    /\ running = NoThread
    /\ grants = 0
    /\ grantedTokens = 0
    /\ reqRefilled = 0
    /\ tokRefilled = 0
    /\ reqDepletedAt = NoTime
    /\ tokDepletedAt = NoTime

bucketVars == <<request_tokens, token_tokens, last_refill, reqRefilled,
                tokRefilled>>
ghostVars == <<grants, grantedTokens, reqDepletedAt, tokDepletedAt>>

\* the wall clock advances
Tick ==
    /\ now < MaxTime
    /\ now' = now + 1
    /\ UNCHANGED <<limiterKind, bucketVars, lock, stats, pc, loc, callsLeft,
                   running, ghostVars>>

\* acquire(estimated_tokens) is called: total_wait = 0.0
AcquireCall(t, est) ==
    /\ pc[t] = "idle" /\ callsLeft[t] > 0 /\ CanRun(t)
    /\ callsLeft' = [callsLeft EXCEPT ![t] = @ - 1]
    /\ loc' = [loc EXCEPT ![t] = [LocInit EXCEPT !.est = est]]
    /\ pc' = [pc EXCEPT ![t] = "lock"]
    /\ running' = Keep(t)
    /\ UNCHANGED <<limiterKind, now, bucketVars, lock, stats, ghostVars>>

\* with self._lock: (blocks, or awaits, while another caller holds it)
AcquireLock(t) ==
    /\ pc[t] = "lock" /\ CanRun(t)
    /\ IF LockAvailable
       THEN /\ lock' = t
            /\ pc' = [pc EXCEPT ![t] = "refill"]
            /\ running' = Keep(t)
       ELSE /\ limiterKind = "async" /\ running = t
            /\ running' = NoThread
            /\ UNCHANGED <<lock, pc>>
    /\ UNCHANGED <<limiterKind, now, bucketVars, stats, loc, callsLeft,
                   ghostVars>>

\* self._refill() before the loop
AcquireRefill(t) ==
    /\ pc[t] = "refill" /\ CanRun(t)
    /\ Refill
    /\ pc' = [pc EXCEPT ![t] = "check"]
    /\ UNCHANGED <<limiterKind, now, lock, stats, loc, callsLeft, running,
                   ghostVars>>

\* while self.request_tokens < 1 or self.token_tokens < estimated_tokens
AcquireCheck(t) ==
    /\ pc[t] = "check" /\ CanRun(t)
    /\ pc' = [pc EXCEPT ![t] =
                IF Insufficient(request_tokens, token_tokens, loc[t].est)
                THEN "wait_refill" ELSE "debit_req_load"]
    /\ UNCHANGED <<limiterKind, now, bucketVars, lock, stats, loc, callsLeft,
                   running, ghostVars>>

\* loop body up to the sleep: _refill, wait_time, time.sleep(wait_time)
AcquireSleep(t) ==
    /\ pc[t] = "wait_refill" /\ CanRun(t)
    /\ Refill
    /\ LET w == WaitTicks(request_tokens', token_tokens', loc[t].est) IN
       loc' = [loc EXCEPT ![t].wait_time = w, ![t].wakeAt = now + w]
    /\ pc' = [pc EXCEPT ![t] = "sleeping"]
    /\ running' = NoThread
    /\ UNCHANGED <<limiterKind, now, lock, stats, callsLeft, ghostVars>>

\* a wait statistic is followed up to MaxTime: it cannot exceed that while
\* the clock is within 0..MaxTime
Counted(n) == Min(n, MaxTime)

\* the sleep returns: total_wait += wait_time, stats["waits"] += 1, _refill
AcquireWake(t) ==
    /\ pc[t] = "sleeping" /\ CanRun(t)
    /\ now >= loc[t].wakeAt
    /\ loc' = [loc EXCEPT ![t].total_wait = Counted(@ + loc[t].wait_time)]
    /\ stats' = IF limiterKind = "threaded"
                THEN [stats EXCEPT !.waits = Counted(@ + 1)] ELSE stats
    /\ Refill
    /\ pc' = [pc EXCEPT ![t] = "check"]
    /\ running' = Keep(t)
    /\ UNCHANGED <<limiterKind, now, lock, callsLeft, ghostVars>>

\* self.request_tokens -= 1 : load
DebitReqLoad(t) ==
    /\ pc[t] = "debit_req_load" /\ CanRun(t)
    /\ loc' = [loc EXCEPT ![t].tmp = request_tokens]
    /\ pc' = [pc EXCEPT ![t] = "debit_req_store"]
    /\ UNCHANGED <<limiterKind, now, bucketVars, lock, stats, callsLeft,
                   running, ghostVars>>

\* self.request_tokens -= 1 : store
DebitReqStore(t) ==
    /\ pc[t] = "debit_req_store" /\ CanRun(t)
    /\ request_tokens' = loc[t].tmp - OneToken
    /\ reqDepletedAt' = IF request_tokens' = 0 THEN {last_refill} ELSE NoTime
    /\ pc' = [pc EXCEPT ![t] = "debit_tok_load"]
    /\ UNCHANGED <<limiterKind, now, token_tokens, last_refill, reqRefilled,
                   tokRefilled, lock, stats, loc, callsLeft, running, grants,
                   grantedTokens, tokDepletedAt>>

\* self.token_tokens -= estimated_tokens : load
DebitTokLoad(t) ==
    /\ pc[t] = "debit_tok_load" /\ CanRun(t)
    /\ loc' = [loc EXCEPT ![t].tmp = token_tokens]
    /\ pc' = [pc EXCEPT ![t] = "debit_tok_store"]
    /\ UNCHANGED <<limiterKind, now, bucketVars, lock, stats, callsLeft,
                   running, ghostVars>>

\* self.token_tokens -= estimated_tokens : store
DebitTokStore(t) ==
    /\ pc[t] = "debit_tok_store" /\ CanRun(t)
    /\ token_tokens' = loc[t].tmp - loc[t].est * OneToken
    /\ tokDepletedAt' = IF token_tokens' = 0 THEN {last_refill} ELSE NoTime
    /\ pc' = [pc EXCEPT ![t] =
                IF limiterKind = "threaded" THEN "stat_req_load" ELSE "unlock"]
    /\ UNCHANGED <<limiterKind, now, request_tokens, last_refill, reqRefilled,
                   tokRefilled, lock, stats, loc, callsLeft, running, grants,
                   grantedTokens, reqDepletedAt>>

\* self.stats["total_requests"] += 1 : load
StatReqLoad(t) ==
    /\ pc[t] = "stat_req_load" /\ CanRun(t)
    /\ loc' = [loc EXCEPT ![t].tmp = stats.total_requests]
    /\ pc' = [pc EXCEPT ![t] = "stat_req_store"]
    /\ UNCHANGED <<limiterKind, now, bucketVars, lock, stats, callsLeft,
                   running, ghostVars>>

\* self.stats["total_requests"] += 1 : store
StatReqStore(t) ==
    /\ pc[t] = "stat_req_store" /\ CanRun(t)
    /\ stats' = [stats EXCEPT !.total_requests = loc[t].tmp + 1]
    /\ pc' = [pc EXCEPT ![t] = "stat_tok_load"]
    /\ UNCHANGED <<limiterKind, now, bucketVars, lock, loc, callsLeft,
                   running, ghostVars>>

\* self.stats["total_tokens"] += estimated_tokens : load
StatTokLoad(t) ==
    /\ pc[t] = "stat_tok_load" /\ CanRun(t)
    /\ loc' = [loc EXCEPT ![t].tmp = stats.total_tokens]
    /\ pc' = [pc EXCEPT ![t] = "stat_tok_store"]
    /\ UNCHANGED <<limiterKind, now, bucketVars, lock, stats, callsLeft,
                   running, ghostVars>>

\* self.stats["total_tokens"] += estimated_tokens : store
StatTokStore(t) ==
    /\ pc[t] = "stat_tok_store" /\ CanRun(t)
    /\ stats' = [stats EXCEPT !.total_tokens = loc[t].tmp + loc[t].est]
    /\ pc' = [pc EXCEPT ![t] = "unlock"]
    /\ UNCHANGED <<limiterKind, now, bucketVars, lock, loc, callsLeft,
                   running, ghostVars>>

\* the with block ends: the lock is released and the call is granted
AcquireUnlock(t) ==
    /\ pc[t] = "unlock" /\ CanRun(t)
    /\ lock' = NoThread
    /\ grants' = grants + 1
    /\ grantedTokens' = grantedTokens + loc[t].est
    /\ IF limiterKind = "threaded" /\ loc[t].total_wait > 0
       THEN /\ pc' = [pc EXCEPT ![t] = "stat_wait_load"]
            /\ loc' = loc
       ELSE /\ pc' = [pc EXCEPT ![t] = "idle"]
            /\ loc' = [loc EXCEPT ![t] = LocInit]
    /\ running' = NoThread
    /\ UNCHANGED <<limiterKind, now, bucketVars, stats, callsLeft,
                   reqDepletedAt, tokDepletedAt>>

\* self.stats["total_wait_time"] += total_wait, outside the lock : load
StatWaitLoad(t) ==
    /\ pc[t] = "stat_wait_load" /\ CanRun(t)
    /\ loc' = [loc EXCEPT ![t].tmp = stats.total_wait_time]
    /\ pc' = [pc EXCEPT ![t] = "stat_wait_store"]
    /\ UNCHANGED <<limiterKind, now, bucketVars, lock, stats, callsLeft,
                   running, ghostVars>>

\* self.stats["total_wait_time"] += total_wait : store, then return
StatWaitStore(t) ==
    /\ pc[t] = "stat_wait_store" /\ CanRun(t)
    /\ stats' = [stats EXCEPT !.total_wait_time = loc[t].tmp + loc[t].total_wait]
    /\ pc' = [pc EXCEPT ![t] = "idle"]
    /\ loc' = [loc EXCEPT ![t] = LocInit]
    /\ UNCHANGED <<limiterKind, now, bucketVars, lock, callsLeft, running,
                   ghostVars>>

\* report_actual_usage(actual_tokens, estimated_tokens): diff, then the lock
ReportCall(t, actual, est) ==
    /\ limiterKind = "threaded"
    /\ pc[t] = "idle" /\ callsLeft[t] > 0
    /\ callsLeft' = [callsLeft EXCEPT ![t] = @ - 1]
    /\ IF est - actual # 0
       THEN /\ loc' = [loc EXCEPT ![t] =
                         [LocInit EXCEPT !.est = est, !.diff = est - actual]]
            /\ pc' = [pc EXCEPT ![t] = "report_lock"]
       ELSE UNCHANGED <<loc, pc>>
    /\ UNCHANGED <<limiterKind, now, bucketVars, lock, stats, running,
                   ghostVars>>

ReportLock(t) ==
    /\ pc[t] = "report_lock"
    /\ LockAvailable
    /\ lock' = t
    /\ pc' = [pc EXCEPT ![t] = "report_apply"]
    /\ UNCHANGED <<limiterKind, now, bucketVars, stats, loc, callsLeft,
                   running, ghostVars>>

\* token_tokens = min(capacity, token_tokens + diff); total_tokens -= diff
ReportApply(t) ==
    /\ pc[t] = "report_apply"
    /\ token_tokens' = Min(token_capacity, token_tokens + loc[t].diff * OneToken)
    /\ stats' = [stats EXCEPT !.total_tokens = @ - loc[t].diff]
    /\ tokDepletedAt' = IF loc[t].diff > 0 THEN NoTime ELSE tokDepletedAt
    /\ lock' = NoThread
    /\ pc' = [pc EXCEPT ![t] = "idle"]
    /\ loc' = [loc EXCEPT ![t] = LocInit]
    /\ UNCHANGED <<limiterKind, now, request_tokens, last_refill, reqRefilled,
                   tokRefilled, callsLeft, running, grants, grantedTokens,
                   reqDepletedAt>>

\* reset()
ResetCall(t) ==
    /\ limiterKind = "threaded"
    /\ pc[t] = "idle" /\ callsLeft[t] > 0
    /\ callsLeft' = [callsLeft EXCEPT ![t] = @ - 1]
    /\ pc' = [pc EXCEPT ![t] = "reset_lock"]
    /\ UNCHANGED <<limiterKind, now, bucketVars, lock, stats, loc, running,
                   ghostVars>>

ResetLock(t) ==
    /\ pc[t] = "reset_lock"
    /\ LockAvailable
    /\ lock' = t
    /\ pc' = [pc EXCEPT ![t] = "reset_apply"]
    /\ UNCHANGED <<limiterKind, now, bucketVars, stats, loc, callsLeft,
                   running, ghostVars>>

ResetApply(t) ==
    /\ pc[t] = "reset_apply"
    /\ request_tokens' = RequestInit
    /\ token_tokens' = TokenInit
    /\ last_refill' = now
    /\ stats' = StatsInit
    /\ lock' = NoThread
    /\ pc' = [pc EXCEPT ![t] = "idle"]
    /\ reqDepletedAt' = NoTime
    /\ tokDepletedAt' = NoTime
    /\ grants' = 0
    /\ grantedTokens' = 0
    /\ reqRefilled' = 0
    /\ tokRefilled' = 0
    /\ UNCHANGED <<limiterKind, now, loc, callsLeft, running>>

AcquireStep(t) ==
    \/ \E est \in 1..MaxEst : AcquireCall(t, est)
    \/ AcquireLock(t)
    \/ AcquireRefill(t)
    \/ AcquireCheck(t)
    \/ AcquireSleep(t)
    \/ AcquireWake(t)
    \/ DebitReqLoad(t)
    \/ DebitReqStore(t)
    \/ DebitTokLoad(t)
    \/ DebitTokStore(t)
    \/ StatReqLoad(t)
    \/ StatReqStore(t)
    \/ StatTokLoad(t)
    \/ StatTokStore(t)
    \/ AcquireUnlock(t)
    \/ StatWaitLoad(t)
    \/ StatWaitStore(t)

ReportStep(t) ==
    \/ \E actual \in 1..(MaxEst + 1), est \in 1..MaxEst : ReportCall(t, actual, est)
    \/ ReportLock(t)
    \/ ReportApply(t)

ResetStep(t) ==
    \/ ResetCall(t)
    \/ ResetLock(t)
    \/ ResetApply(t)

\* ---- properties of the limiter -------------------------------------------

\* C3: concurrent acquire calls lose no update and spend no capacity twice:
\* at most one caller is inside the critical section, and whenever none is,
\* every grant has debited exactly one request token and estimated_tokens
\* usage tokens: levels = initial + refill - debits, and (threaded limiter)
\* stats total_requests = number of grants, total_tokens = granted tokens.
C3_NoLostUpdate ==
    /\ Cardinality({t \in Threads : InCritical(t)}) <= 1
    /\ (\A t \in Threads : ~InCritical(t)) =>
         /\ request_tokens = RequestInit + reqRefilled - grants * OneToken
         /\ token_tokens = TokenInit + tokRefilled - grantedTokens * OneToken
         /\ limiterKind = "threaded" =>
              /\ stats.total_requests = grants
              /\ stats.total_tokens = grantedTokens

\* grants were made to callers that contended for the lock, with refills
C3_Witness ==
    /\ grants >= 2
    /\ \A t \in Threads : ~InCritical(t)
    /\ \A t \in Threads : callsLeft[t] < MaxCalls
    /\ reqRefilled > 0
    /\ stats.total_requests = grants

\* C4: a grant is decided only when the request bucket holds >= 1 token and
\* the token bucket >= estimated_tokens, and after a debit emptied a bucket
\* the next grant needs at least 60/capacity seconds of refill per unit.
C4_NeverEarly ==
    \A t \in Threads :
        /\ pc[t] \in {"debit_req_load", "debit_req_store"} =>
             /\ request_tokens >= OneToken
             /\ \A d \in reqDepletedAt :
                  (last_refill - d) * refill_per_tick_requests >= OneToken
        /\ pc[t] \in {"debit_req_load", "debit_req_store",
                      "debit_tok_load", "debit_tok_store"} =>
             /\ token_tokens >= loc[t].est * OneToken
             /\ \A d \in tokDepletedAt :
                  (last_refill - d) * refill_per_tick_tokens
                     >= loc[t].est * OneToken

\* a caller that had to wait for the emptied request bucket is granted
C4_Witness ==
    \E t \in Threads :
        /\ pc[t] = "debit_req_load"
        /\ reqDepletedAt # NoTime
        /\ loc[t].total_wait > 0
        /\ \A d \in reqDepletedAt : last_refill > d

C28_BucketsNeverNegative ==
    /\ request_tokens >= 0
    /\ token_tokens >= 0

\* an acquirer that found the capacity insufficient and is not yet granted
Blocked(t) ==
    \/ pc[t] \in {"wait_refill", "sleeping"}
    \/ pc[t] = "check" /\ loc[t].total_wait > 0

\* C29: a blocked acquirer keeps the lock while it sleeps: from the moment
\* it finds the capacity insufficient until it is granted no other caller
\* is granted, no report_actual_usage credit is applied and no reset takes
\* effect, in the threaded and in the async limiter; the buckets and the
\* request and token statistics change only by the blocked caller's own
\* steps (a caller granted earlier may still add its total_wait_time, which
\* the code does after leaving the lock).
C29_BlockedKeepsLock ==
    [][\A t \in Threads :
         Blocked(t) =>
           /\ lock = t
           /\ \A u \in Threads \ {t} : ~InCritical(u) /\ ~InCritical(u)'
           /\ grants' = grants /\ grantedTokens' = grantedTokens
           /\ (\/ token_tokens' # token_tokens
               \/ request_tokens' # request_tokens
               \/ last_refill' # last_refill
               \/ stats.total_requests' # stats.total_requests
               \/ stats.total_tokens' # stats.total_tokens) =>
                pc'[t] # pc[t]]_vars

\* one caller sleeps in acquire with its wake-up time reached while another
\* waits for the lock with a credit to report
C29_Witness ==
    \E t, u \in Threads :
        /\ pc[t] = "sleeping" /\ now >= loc[t].wakeAt
        /\ pc[u] = "report_lock" /\ loc[u].diff > 0
        /\ lock = t

\* ========================================================================
\* src/survey/validator.py : validate_llm_response
\* ========================================================================
\* A response text is a sequence of tokens; a token is a fixed piece of text.
\* The regular expressions and the substring tests are evaluated over the
\* characters the tokens stand for: their length, their lower-case form,
\* whether they are digits or whitespace, and whether they begin / end with
\* a word character (for \b).
Alphabet == {" ", "8", "10", "/", "out of", "stars", "Rating:", "score",
             "rate", "it", "great value", "As an AI", "language model"}

TokenLen(tok) ==
    CASE tok = " " -> 1
      [] tok = "8" -> 1
      [] tok = "10" -> 2
      [] tok = "/" -> 1
      [] tok = "out of" -> 6
      [] tok = "stars" -> 5
      [] tok = "Rating:" -> 7
      [] tok = "score" -> 5
      [] tok = "rate" -> 4
      [] tok = "it" -> 2
      [] tok = "great value" -> 11
      [] tok = "As an AI" -> 8
      [] tok = "language model" -> 14

\* str.lower() / re.IGNORECASE
Lower(tok) ==
    CASE tok = "Rating:" -> "rating:"
      [] tok = "As an AI" -> "as an ai"
      [] OTHER -> tok

IsSpace(tok) == tok = " "
IsDigits(tok) == tok \in {"8", "10"}
BeginsWithWordChar(tok) == tok \notin {" ", "/"}
EndsWithWordChar(tok) == tok \notin {" ", "/", "Rating:"}

\* len(text)
RECURSIVE TextLen(_)
TextLen(s) == IF s = <<>> THEN 0 ELSE TokenLen(Head(s)) + TextLen(Tail(s))

\* str.strip(): leading and trailing whitespace removed
RECURSIVE StripLeft(_)
StripLeft(s) ==
    IF s # <<>> /\ IsSpace(Head(s)) THEN StripLeft(Tail(s)) ELSE s

RECURSIVE StripRight(_)
StripRight(s) ==
    IF s # <<>> /\ IsSpace(s[Len(s)])
    THEN StripRight(SubSeq(s, 1, Len(s) - 1)) ELSE s

Strip(s) == StripRight(StripLeft(s))

\* \b between position i - 1 and i of s
WordBoundaryBefore(s, i) ==
    LET before == i > 1 /\ EndsWithWordChar(s[i - 1])
        after == i <= Len(s) /\ BeginsWithWordChar(s[i])
    IN  before # after

\* \s* from position i: the positions at which the rest may continue
AfterSpaces(s, i) ==
    {j \in i..(Len(s) + 1) : \A k \in i..(j - 1) : IsSpace(s[k])}

\* \s+ from position i
AfterSpaces1(s, i) == AfterSpaces(s, i) \ {i}

At(s, i, toks) == i <= Len(s) /\ Lower(s[i]) \in toks
DigitsAt(s, i) == i <= Len(s) /\ IsDigits(s[i])

\* NUMERIC_PATTERNS, in list order; MatchPattern(n, s) is re.search
MatchPattern(n, s) ==
    CASE n = 1 ->   \* \d+\s*out of\s*\d+
           \E i \in DOMAIN s : DigitsAt(s, i) /\
             \E j \in AfterSpaces(s, i + 1) : At(s, j, {"out of"}) /\
               \E k \in AfterSpaces(s, j + 1) : DigitsAt(s, k)
      [] n = 2 ->   \* \d+/\d+
           \E i \in DOMAIN s :
             DigitsAt(s, i) /\ At(s, i + 1, {"/"}) /\ DigitsAt(s, i + 2)
      [] n = 3 ->   \* rating:?\s*\d+
           \E i \in DOMAIN s : At(s, i, {"rating", "rating:"}) /\
             \E j \in AfterSpaces(s, i + 1) : DigitsAt(s, j)
      [] n = 4 ->   \* score:?\s*\d+
           \E i \in DOMAIN s : At(s, i, {"score", "score:"}) /\
             \E j \in AfterSpaces(s, i + 1) : DigitsAt(s, j)
      [] n = 5 ->   \* \d+\s*stars?
           \E i \in DOMAIN s : DigitsAt(s, i) /\
             \E j \in AfterSpaces(s, i + 1) : At(s, j, {"star", "stars"})
      [] n = 6 ->   \* \b[1-9]0?\s*(?:out of|\/)\s*10\b
           \E i \in DOMAIN s :
             /\ DigitsAt(s, i) /\ WordBoundaryBefore(s, i)
             /\ \E j \in AfterSpaces(s, i + 1) : At(s, j, {"out of", "/"}) /\
                  \E k \in AfterSpaces(s, j + 1) :
                    At(s, k, {"10"}) /\ WordBoundaryBefore(s, k + 1)
      [] n = 7 ->   \* \brate\s+(?:it\s+)?(?:a\s+)?\d+\b
           \E i \in DOMAIN s :
             /\ At(s, i, {"rate"}) /\ WordBoundaryBefore(s, i)
             /\ \E j \in AfterSpaces1(s, i + 1) :
                  \E j2 \in {j} \cup (IF At(s, j, {"it"})
                                       THEN AfterSpaces1(s, j + 1) ELSE {}) :
                    \E j3 \in {j2} \cup (IF At(s, j2, {"a"})
                                          THEN AfterSpaces1(s, j2 + 1) ELSE {}) :
                      \E k \in j3..Len(s) :
                        /\ \A m \in j3..k : DigitsAt(s, m)
                        /\ WordBoundaryBefore(s, k + 1)

NumPatterns == 7

AI_PHRASES == <<"as an ai", "i am an ai", "i'm an ai", "language model",
                "as a language model", "as an artificial", "i cannot",
                "i can't actually", "i don't have personal",
                "i don't have preferences", "i'm not able to",
                "as a helpful assistant", "i am programmed", "my programming">>

\* `phrase in response_lower`: the tokens are whole phrases or contain none
ContainsPhrase(s, phrase) == \E i \in DOMAIN s : Lower(s[i]) = phrase

MinResponseChars == 10

TooShortMsg == [text |-> "Response too short or empty", pattern |-> 0]
NumericMsg(n) ==
    [text |-> "Response contains numeric rating matching: ", pattern |-> n]
CharacterBreakMsg ==
    [text |-> "Response breaks character (AI self-reference)", pattern |-> 0]
NoMsg == [text |-> "", pattern |-> 0]

\* the first pattern, in list order, that the text matches (0: none)
FirstPattern(s) ==
    IF \E n \in 1..NumPatterns : MatchPattern(n, s)
    THEN CHOOSE n \in 1..NumPatterns :
            MatchPattern(n, s) /\ \A m \in 1..(n - 1) : ~MatchPattern(m, s)
    ELSE 0

\* validate_llm_response(response_text) -> (is_valid, error_message)
validate_numeric_last(s) ==
    IF s = <<>> \/ TextLen(Strip(s)) < MinResponseChars
    THEN [is_valid |-> FALSE, error_msg |-> TooShortMsg]
    ELSE IF \E i \in DOMAIN AI_PHRASES : ContainsPhrase(s, AI_PHRASES[i])
    THEN [is_valid |-> FALSE, error_msg |-> CharacterBreakMsg]
    ELSE IF FirstPattern(s) # 0
    THEN [is_valid |-> FALSE, error_msg |-> NumericMsg(FirstPattern(s))]
    ELSE [is_valid |-> TRUE, error_msg |-> NoMsg]
validate_llm_response(s) ==
    IF s = <<>> \/ TextLen(Strip(s)) < MinResponseChars
    THEN [is_valid |-> FALSE, error_msg |-> TooShortMsg]
    ELSE IF FirstPattern(s) # 0
    THEN [is_valid |-> FALSE, error_msg |-> NumericMsg(FirstPattern(s))]
    ELSE IF \E i \in DOMAIN AI_PHRASES : ContainsPhrase(s, AI_PHRASES[i])
    THEN [is_valid |-> FALSE, error_msg |-> CharacterBreakMsg]
    ELSE [is_valid |-> TRUE, error_msg |-> NoMsg]

ValidatorIdle ==
    /\ response_text = <<>>
    /\ validation = [is_valid |-> FALSE, error_msg |-> NoMsg]
    /\ validPc = "idle"

ValidatorInputs ==
    /\ response_text \in UNION {[1..k -> Alphabet] : k \in 0..MaxTextLen}
    /\ validation = [is_valid |-> FALSE, error_msg |-> NoMsg]
    /\ validPc = "input"

Validate ==
    /\ validPc = "input"
    /\ validation' = validate_llm_response(response_text)
    /\ validPc' = "done"
    /\ UNCHANGED response_text

\* ---- properties of the validator -----------------------------------------
\* the three defects, stated on the text itself
TooShortOrEmpty(s) == s = <<>> \/ TextLen(Strip(s)) < MinResponseChars
HasNumericRating(s) == \E n \in 1..NumPatterns : MatchPattern(n, s)
HasCharacterBreak(s) ==
    \E i \in DOMAIN s :
        \E k \in DOMAIN AI_PHRASES : Lower(s[i]) = AI_PHRASES[k]

\* C8: a response is accepted iff it is non-empty and reaches the minimum
\* length, matches no numeric-rating pattern and contains no character-
\* breaking phrase; the one reason reported is the first that applies in the
\* order too-short-or-empty, numeric rating, character break.
C8_ValidationOrder ==
    validPc = "done" =>
      LET s == response_text IN
      /\ validation.is_valid <=>
           (~TooShortOrEmpty(s) /\ ~HasNumericRating(s) /\ ~HasCharacterBreak(s))
      /\ validation.is_valid => validation.error_msg = NoMsg
      /\ TooShortOrEmpty(s) => validation.error_msg = TooShortMsg
      /\ (~TooShortOrEmpty(s) /\ HasNumericRating(s)) =>
           validation.error_msg.text = NumericMsg(1).text
      /\ (~TooShortOrEmpty(s) /\ ~HasNumericRating(s) /\ HasCharacterBreak(s)) =>
           validation.error_msg = CharacterBreakMsg

\* a long enough response with a numeric rating and a character break
C8_Witness ==
    /\ validPc = "done"
    /\ ~TooShortOrEmpty(response_text)
    /\ HasNumericRating(response_text)
    /\ HasCharacterBreak(response_text)
    /\ validation.error_msg.text = NumericMsg(1).text

\* ========================================================================
\* src/survey/executor.py : PRICING, calculate_cost, CostTracker
\* ========================================================================
\* Costs are exact: one unit is 0.05 USD per million tokens.
Models == {"gpt-4o-mini", "gpt-5.2", "custom-model"}

PricedModels == {"gpt-4o-mini", "gpt-5-mini", "gpt-5.2", "gpt-5-nano"}

PRICING(model) ==
    CASE model = "gpt-4o-mini" -> [input |-> 3, output |-> 12, reasoning |-> 12]
      [] model = "gpt-5-mini" -> [input |-> 8, output |-> 32, reasoning |-> 32]
      [] model = "gpt-5.2" -> [input |-> 60, output |-> 300, reasoning |-> 300]
      [] model = "gpt-5-nano" -> [input |-> 2, output |-> 8, reasoning |-> 8]

\* calculate_cost(model, usage); pricing.get("reasoning", pricing["output"])
calculate_cost(model, usage) ==
    IF model \notin PricedModels THEN 0
    ELSE usage.prompt_tokens * PRICING(model).input
         + usage.completion_tokens * PRICING(model).output
         + usage.reasoning_tokens * PRICING(model).reasoning

Usages == {[prompt_tokens |-> p, completion_tokens |-> 1, reasoning_tokens |-> 0] :
             p \in 1..MaxPromptTokens}

\* record_call: self.total_cost += cost
AddCost(total, cost) == total + cost

\* record_call: self.calls.append({...}) (the timestamp is not kept)
AppendCall(cs, model, usage, cost) ==
    Append(cs, [model |-> model, usage |-> usage, cost |-> cost])

\* reset: self.calls.clear()
ClearedCallsKept(cs) == cs
ClearedCalls(cs) == <<>>

\* _breakdown_by_model over the call list
RECURSIVE BreakdownByModel(_)
BreakdownByModel(cs) ==
    IF cs = <<>> THEN [m \in {} |-> [calls |-> 0, cost |-> 0]]
    ELSE LET prev == BreakdownByModel(SubSeq(cs, 1, Len(cs) - 1))
             call == cs[Len(cs)]
             old == IF call.model \in DOMAIN prev
                    THEN prev[call.model] ELSE [calls |-> 0, cost |-> 0]
         IN  [m \in DOMAIN prev \cup {call.model} |->
                IF m = call.model
                THEN [calls |-> old.calls + 1, cost |-> old.cost + call.cost]
                ELSE prev[m]]

\* summary(); avg_cost_per_call is the rational num / den
Summary ==
    [total_cost |-> total_cost,
     total_calls |-> Len(calls),
     avg_cost_per_call |->
        IF calls # <<>> THEN [num |-> total_cost, den |-> Len(calls)]
        ELSE [num |-> 0, den |-> 1],
     breakdown |-> BreakdownByModel(calls)]

CostIdle ==
    /\ total_cost = 0
    /\ calls = <<>>
    /\ recordOps = 0
    /\ recordedSum = 0
    /\ costLastOp = "init"

record_call(model, usage, cost) ==
    /\ total_cost' = AddCost(total_cost, cost)
    /\ calls' = AppendCall(calls, model, usage, cost)
    /\ recordOps' = recordOps + 1
    /\ recordedSum' = recordedSum + cost
    /\ costLastOp' = "record_call"

reset ==
    /\ total_cost' = 0
    /\ calls' = ClearedCalls(calls)
    /\ recordOps' = 0
    /\ recordedSum' = 0
    /\ costLastOp' = "reset"

\* a caller records one call
RecordAny ==
    /\ Len(calls) < MaxRecorded
    /\ \E model \in Models, usage \in Usages, cost \in 0..MaxCost :
          record_call(model, usage, cost)

\* ---- properties of the cost tracker --------------------------------------
RECURSIVE SumBreakdown(_, _, _)
SumBreakdown(b, ms, field) ==
    IF ms = {} THEN 0
    ELSE LET m == CHOOSE x \in ms : TRUE
         IN  (IF field = "calls" THEN b[m].calls ELSE b[m].cost)
             + SumBreakdown(b, ms \ {m}, field)

\* C9: since creation or the last reset, total_cost is the sum of the
\* recorded costs, summary().total_calls the number of record_call
\* operations, the per-model breakdown adds up to both, and reset returns
\* the tracker to zero cost and zero calls.
C9_CostAdditive ==
    LET s == Summary IN
    /\ s.total_cost = recordedSum
    /\ s.total_calls = recordOps
    /\ SumBreakdown(s.breakdown, DOMAIN s.breakdown, "calls") = s.total_calls
    /\ SumBreakdown(s.breakdown, DOMAIN s.breakdown, "cost") = s.total_cost
    /\ costLastOp = "reset" => (s.total_cost = 0 /\ s.total_calls = 0)

\* calls of two models were recorded
C9_Witness ==
    /\ costLastOp = "record_call"
    /\ recordOps >= 2
    /\ total_cost > 0
    /\ Cardinality(DOMAIN Summary.breakdown) >= 2

\* ---- worker threads sharing one CostTracker ------------------------------
\* record_call takes no lock. `self.total_cost += cost` reads the attribute,
\* adds and writes it back, and another thread may run between the read and
\* the write; list.append is a single step.
WorkersIdle ==
    /\ workerPc = [t \in Threads |-> "idle"]
    /\ workerLoc = [t \in Threads |-> [cost |-> 0, tmp |-> 0]]
    /\ workerLeft = [t \in Threads |-> 0]

WorkersStart ==
    /\ workerPc = [t \in Threads |-> "idle"]
    /\ workerLoc = [t \in Threads |-> [cost |-> 0, tmp |-> 0]]
    /\ workerLeft = [t \in Threads |-> MaxCalls]

\* thread t calls record_call(model, usage, cost)
WorkerCall(t, cost) ==
    /\ workerPc[t] = "idle" /\ workerLeft[t] > 0
    /\ workerLeft' = [workerLeft EXCEPT ![t] = @ - 1]
    /\ workerLoc' = [workerLoc EXCEPT ![t] = [cost |-> cost, tmp |-> 0]]
    /\ workerPc' = [workerPc EXCEPT ![t] = "load"]
    /\ UNCHANGED costVars

\* self.total_cost += cost : read
WorkerLoad(t) ==
    /\ workerPc[t] = "load"
    /\ workerLoc' = [workerLoc EXCEPT ![t].tmp = total_cost]
    /\ workerPc' = [workerPc EXCEPT ![t] = "store"]
    /\ UNCHANGED <<workerLeft, costVars>>

\* self.total_cost += cost : write
WorkerStore(t) ==
    /\ workerPc[t] = "store"
    /\ total_cost' = AddCost(workerLoc[t].tmp, workerLoc[t].cost)
    /\ workerPc' = [workerPc EXCEPT ![t] = "append"]
    /\ UNCHANGED <<workerLoc, workerLeft, calls, recordOps, recordedSum,
                   costLastOp>>

\* self.calls.append({...}) and return
WorkerAppend(t) ==
    /\ workerPc[t] = "append"
    /\ \E model \in Models, usage \in Usages :
          calls' = AppendCall(calls, model, usage, workerLoc[t].cost)
    /\ recordOps' = recordOps + 1
    /\ recordedSum' = recordedSum + workerLoc[t].cost
    /\ costLastOp' = "record_call"
    /\ workerPc' = [workerPc EXCEPT ![t] = "idle"]
    /\ UNCHANGED <<workerLoc, workerLeft, total_cost>>

WorkerStep(t) == WorkerLoad(t) \/ WorkerStore(t) \/ WorkerAppend(t)

AllReturned == \A t \in Threads : workerPc[t] = "idle"

\* C27: when several worker threads call record_call on one shared
\* CostTracker, no update is lost: once all calls have returned, total_cost
\* is the sum of the recorded costs and the number of stored call records
\* the number of record_call invocations.
C27_NoLostCostUpdate ==
    AllReturned =>
       /\ total_cost = recordedSum
       /\ Len(calls) = recordOps

\* ========================================================================
\* src/survey/executor.py : get_purchase_opinion_with_retry
\* src/pipeline.py        : SSRPipeline.run_survey
\* src/reporting/aggregator.py : aggregate_results
\* ========================================================================
\* stands for "I'd give this 8/10, pretty good value"
ScenarioText == <<"8", "/", "10", " ", "great value">>

\* the texts the text service answers with (message.content)
ServiceTexts ==
    {<<" ", "great value", " ">>,
     ScenarioText,
     <<"8", "/", "10">>,
     <<"As an AI", " ", "great value">>,
     <<"As an AI", " ", "8", " ", "stars">>,
     <<>>}

None == <<>>

DefaultMaxRetries == 3
DefaultBackoff == 2

RECURSIVE Pow(_, _)
Pow(b, k) == IF k = 0 THEN 1 ELSE b * Pow(b, k - 1)

\* wait_time = backoff_factor ** attempt
WaitTimeLinear(f, k) == f * (k + 1)
WaitTime(f, k) == Pow(f, k)

\* "numeric rating" in error_msg
MentionsNumericRating(msg) ==
    msg.text = "Response contains numeric rating matching: "

\* if "numeric rating" in error_msg and attempt < max_retries - 1
ReinforceOnAnyRejection(msg, k, budget) == k < budget - 1
ShouldReinforce(msg, k, budget) ==
    MentionsNumericRating(msg) /\ k < budget - 1

\* create_reinforced_prompt / create_survey_prompt
PromptFor(r) == IF r THEN "reinforced" ELSE "standard"

\* for attempt in range(max_retries): is there an iteration after attempt k
HasNextOffByOne(k, budget) == k + 1 <= budget
HasNext(k, budget) == k + 1 < budget

\* the dict returned for a valid response
ResultDict(text, usage, model, k) ==
    [response_text |-> text,
     tokens_used |-> usage.prompt_tokens + usage.completion_tokens,
     cost |-> calculate_cost(model, usage),
     model |-> model,
     usage |-> usage,
     attempts |-> k + 1]

LogEntry(outcome, valid, msg) ==
    [attempt |-> attempt, prompt |-> PromptFor(reinforced),
     outcome |-> outcome, valid |-> valid, reason |-> msg.text]

SurveyIdle ==
    /\ svMode = "idle"
    /\ llm_model = "gpt-4o-mini"
    /\ max_retries = DefaultMaxRetries
    /\ backoff_factor = DefaultBackoff
    /\ n_personas = 0
    /\ persona_i = 1
    /\ svPc = "idle"
    /\ attempt = 0
    /\ reinforced = FALSE
    /\ response = None
    /\ results = <<>>
    /\ aggregate = None
    /\ callLog = <<>>
    /\ sleepLog = <<>>
    /\ cycles = <<>>
    /\ svcResponses = 0
    /\ svcCost = 0

\* one direct call of get_purchase_opinion_with_retry
RetryStart ==
    /\ svMode = "direct"
    /\ llm_model \in Models
    /\ max_retries \in 0..MaxRetries
    /\ backoff_factor \in 1..MaxBackoff
    /\ n_personas = 1
    /\ persona_i = 1
    /\ svPc = "loop"
    /\ attempt = 0
    /\ reinforced = FALSE
    /\ response = None
    /\ results = <<>>
    /\ aggregate = None
    /\ callLog = <<>>
    /\ sleepLog = <<>>
    /\ cycles = <<0>>
    /\ svcResponses = 0
    /\ svcCost = 0

\* run_survey after the personas were generated
SurveyStart ==
    /\ svMode = "survey"
    /\ llm_model \in Models
    /\ max_retries = DefaultMaxRetries
    /\ backoff_factor = DefaultBackoff
    /\ n_personas \in 0..MaxPersonas
    /\ persona_i = 1
    /\ svPc = "loop"
    /\ attempt = 0
    /\ reinforced = FALSE
    /\ response = None
    /\ results = <<>>
    /\ aggregate = None
    /\ callLog = <<>>
    /\ sleepLog = <<>>
    /\ cycles = [p \in 1..n_personas |-> 0]
    /\ svcResponses = 0
    /\ svcCost = 0

configVars == <<svMode, llm_model, max_retries, backoff_factor, n_personas>>

\* leave the function with `value`
ReturnValueStays(value) ==
    /\ response' = value
    /\ svPc' = "attempt"
    /\ UNCHANGED <<attempt, reinforced>>
ReturnValue(value) ==
    /\ response' = value
    /\ svPc' = "returned"
    /\ UNCHANGED <<attempt, reinforced>>

\* go to the next iteration of the for loop, or fall out of it
NextIteration ==
    IF HasNext(attempt, max_retries)
    THEN /\ attempt' = attempt + 1
         /\ svPc' = "attempt"
         /\ UNCHANGED response
    ELSE /\ response' = None
         /\ svPc' = "returned"
         /\ UNCHANGED attempt

\* run_survey's for loop reaches persona_i and enters the function
StartCycle ==
    /\ svPc = "loop"
    /\ persona_i <= n_personas
    /\ cycles' = [cycles EXCEPT ![persona_i] = @ + 1]
    /\ attempt' = 0
    /\ reinforced' = FALSE
    /\ callLog' = <<>>
    /\ sleepLog' = <<>>
    /\ IF max_retries > 0
       THEN svPc' = "attempt" /\ response' = None
       ELSE svPc' = "returned" /\ response' = None
    /\ UNCHANGED <<configVars, persona_i, results, aggregate, svcResponses,
                   svcCost, costVars>>

\* one attempt in which the service answers with `content` and `usage`
AttemptResponse ==
    /\ svPc = "attempt"
    /\ \E content \in ServiceTexts, usage \in Usages :
         LET text == Strip(content)
             v == validate_llm_response(text)
         IN  /\ callLog' = Append(callLog, LogEntry("response", v.is_valid,
                                                    v.error_msg))
             /\ svcResponses' = svcResponses + 1
             /\ svcCost' = svcCost + calculate_cost(llm_model, usage)
             /\ IF v.is_valid
                THEN ReturnValue(<<ResultDict(text, usage, llm_model, attempt)>>)
                ELSE /\ reinforced' =
                          (reinforced \/ ShouldReinforce(v.error_msg, attempt,
                                                         max_retries))
                     /\ NextIteration
    /\ UNCHANGED <<configVars, persona_i, results, aggregate, sleepLog,
                   cycles, costVars>>

\* except openai.RateLimitError
AttemptRateLimitError ==
    /\ svPc = "attempt"
    /\ callLog' = Append(callLog, LogEntry("RateLimitError", FALSE, NoMsg))
    /\ sleepLog' = Append(sleepLog, [attempt |-> attempt,
                                     wait |-> WaitTime(backoff_factor, attempt)])
    /\ NextIteration
    /\ UNCHANGED <<configVars, persona_i, reinforced, results, aggregate,
                   cycles, svcResponses, svcCost, costVars>>

\* except openai.APIError
AttemptAPIError ==
    /\ svPc = "attempt"
    /\ callLog' = Append(callLog, LogEntry("APIError", FALSE, NoMsg))
    /\ IF attempt = max_retries - 1
       THEN /\ ReturnValue(None)
            /\ UNCHANGED sleepLog
       ELSE /\ sleepLog' = Append(sleepLog,
                  [attempt |-> attempt,
                   wait |-> WaitTime(backoff_factor, attempt)])
            /\ NextIteration
            /\ UNCHANGED reinforced
    /\ UNCHANGED <<configVars, persona_i, results, aggregate, cycles,
                   svcResponses, svcCost, costVars>>

\* except Exception
AttemptException ==
    /\ svPc = "attempt"
    /\ callLog' = Append(callLog, LogEntry("Exception", FALSE, NoMsg))
    /\ ReturnValue(None)
    /\ UNCHANGED <<configVars, persona_i, results, aggregate, sleepLog,
                   cycles, svcResponses, svcCost, costVars>>

\* SurveyResult(...) with ssr_score = 0.0
NewResult(p, r) ==
    [persona_id |-> p, response_text |-> r.response_text, ssr_score |-> 0,
     tokens_used |-> r.tokens_used, cost |-> r.cost]

\* the for loop of run_survey goes on with the next persona
StopAtFirstMiss(p, r) == IF r = None THEN n_personas + 1 ELSE p + 1
NextPersona(p, r) == p + 1

\* run_survey, lines 160-180: the function returned `response`
CollectResponse ==
    /\ svPc = "returned"
    /\ svMode = "survey"
    /\ IF response # None
       THEN /\ record_call(llm_model, response[1].usage, response[1].cost)
            /\ results' = Append(results, NewResult(persona_i, response[1]))
       ELSE UNCHANGED <<results, costVars>>
    /\ persona_i' = NextPersona(persona_i, response)
    /\ svPc' = "loop"
    /\ UNCHANGED <<configVars, attempt, reinforced, response, aggregate,
                   callLog, sleepLog, cycles, svcResponses, svcCost>>

\* the direct caller receives the value
DirectReturn ==
    /\ svPc = "returned"
    /\ svMode = "direct"
    /\ svPc' = "done"
    /\ persona_i' = persona_i + 1
    /\ UNCHANGED <<configVars, attempt, reinforced, response, results,
                   aggregate, callLog, sleepLog, cycles, svcResponses,
                   svcCost, costVars>>

RECURSIVE SumField(_, _)
SumField(rs, field) ==
    IF rs = <<>> THEN 0
    ELSE (CASE field = "cost" -> Head(rs).cost
            [] field = "tokens_used" -> Head(rs).tokens_used
            [] field = "ssr_score" -> Head(rs).ssr_score)
         + SumField(Tail(rs), field)

\* aggregate_results(results); mean_score is the rational num / den
aggregate_results(rs) ==
    IF rs = <<>>
    THEN [results |-> <<>>, mean_score |-> [num |-> 0, den |-> 1],
          total_cost |-> 0, total_tokens |-> 0, sample_size |-> 0]
    ELSE [results |-> rs,
          mean_score |-> [num |-> SumField(rs, "ssr_score"),
                          den |-> Len(rs) * (ScoreLevels - 1)],
          total_cost |-> SumField(rs, "cost"),
          total_tokens |-> SumField(rs, "tokens_used"),
          sample_size |-> Len(rs)]

\* run_survey, lines 182-199: scores are assigned and the aggregate returned;
\* a score is k / (ScoreLevels - 1)
ScoreAndAggregate ==
    /\ svPc = "loop"
    /\ svMode = "survey"
    /\ persona_i > n_personas
    /\ \E scores \in [1..Len(results) -> 0..(ScoreLevels - 1)] :
         LET scored == [i \in 1..Len(results) |->
                          [results[i] EXCEPT !.ssr_score = scores[i]]]
         IN  /\ results' = scored
             /\ aggregate' = <<aggregate_results(scored)>>
    /\ svPc' = "done"
    /\ UNCHANGED <<configVars, persona_i, attempt, reinforced, response,
                   callLog, sleepLog, cycles, svcResponses, svcCost, costVars>>

\* run_survey, lines 182-194: the embedding or scoring step raises
ScoringRaises ==
    /\ svPc = "loop"
    /\ svMode = "survey"
    /\ persona_i > n_personas
    /\ results # <<>>
    /\ svPc' = "raised"
    /\ UNCHANGED <<configVars, persona_i, attempt, reinforced, response,
                   results, aggregate, callLog, sleepLog, cycles,
                   svcResponses, svcCost, costVars>>

\* ---- properties of the retry cycle --------------------------------------
InCycle == svPc \in {"attempt", "returned"}

LastEntry == callLog[Len(callLog)]

\* C5: at most max_retries calls to the text service for one persona, made
\* one after another (the k-th call is attempt k - 1); a result is returned
\* only for the attempt whose response passed validation, and a cycle that
\* used up its budget returns None.
C5_BoundedSequentialRetry ==
    /\ Len(callLog) <= max_retries
    /\ \A k \in DOMAIN callLog : callLog[k].attempt = k - 1
    /\ svPc = "attempt" => (attempt = Len(callLog) /\ attempt < max_retries)
    /\ (svPc = "returned" /\ response # None) =>
         /\ callLog # <<>>
         /\ LastEntry.outcome = "response" /\ LastEntry.valid
         /\ validate_llm_response(response[1].response_text).is_valid
         /\ response[1].attempts = Len(callLog)
         /\ \A k \in 1..(Len(callLog) - 1) : ~callLog[k].valid
    /\ (svPc = "returned" /\ \A k \in DOMAIN callLog : ~callLog[k].valid) =>
         response = None

\* the whole budget was spent on rejected responses and errors
C5_Witness ==
    /\ svPc = "returned"
    /\ max_retries >= 2
    /\ Len(callLog) = max_retries
    /\ response = None
    /\ \E k \in DOMAIN callLog :
          callLog[k].outcome = "response" /\ ~callLog[k].valid
    /\ \E k \in DOMAIN callLog : callLog[k].outcome = "RateLimitError"

NumericRejection(e) ==
    e.outcome = "response" /\ ~e.valid /\
    e.reason = "Response contains numeric rating matching: "

\* C6: the first attempt uses the standard prompt; attempt k + 1 uses the
\* reinforced prompt exactly when attempt k already did or was rejected for
\* a numeric rating (any other failure leaves the variant as it was); the
\* scenario response is rejected for a numeric rating and the attempt that
\* follows it is reinforced.
C6_ReinforcedAfterNumeric ==
    /\ callLog # <<>> => callLog[1].prompt = "standard"
    /\ \A k \in 1..(Len(callLog) - 1) :
         (callLog[k + 1].prompt = "reinforced") <=>
            (callLog[k].prompt = "reinforced" \/ NumericRejection(callLog[k]))
    /\ (svPc = "attempt" /\ callLog # <<>>) =>
         (reinforced <=>
            (LastEntry.prompt = "reinforced" \/ NumericRejection(LastEntry)))
    /\ LET v == validate_llm_response(Strip(ScenarioText))
       IN  ~v.is_valid /\ MentionsNumericRating(v.error_msg)

\* a character break left the standard prompt in place, a numeric rating
\* then switched the next attempt to the reinforced prompt
C6_Witness ==
    /\ Len(callLog) >= 3
    /\ callLog[1].reason = "Response breaks character (AI self-reference)"
    /\ callLog[2].prompt = "standard"
    /\ NumericRejection(callLog[2])
    /\ callLog[3].prompt = "reinforced"

\* ---- properties of run_survey -------------------------------------------
ResultIds == [i \in 1..Len(results) |-> results[i].persona_id]

IsIncreasing(s) == \A i, j \in DOMAIN s : i < j => s[i] < s[j]

\* personas whose cycle has returned a valid response so far
Answered ==
    {p \in 1..n_personas :
        \/ p < persona_i /\ \E i \in DOMAIN results : results[i].persona_id = p
        \/ p = persona_i /\ svPc = "returned" /\ response # None}

\* C7: every generated persona gets exactly one retry cycle whatever the
\* earlier cycles returned; the aggregate holds exactly the personas whose
\* cycle returned a valid response, in persona order, and sample_size is
\* their number; a persona without a result adds no SurveyResult and no
\* cost record and the loop goes on.
C7_PartialFailureContinues ==
    svMode = "survey" =>
      /\ \A p \in 1..n_personas :
           cycles[p] = (IF p < persona_i \/ (p = persona_i /\ InCycle)
                        THEN 1 ELSE 0)
      /\ IsIncreasing(ResultIds)
      /\ Len(calls) = Len(results)
      /\ svPc \in {"loop", "done", "raised"} =>
           /\ {ResultIds[i] : i \in DOMAIN ResultIds} = Answered
      /\ svPc \in {"done", "raised"} => persona_i = n_personas + 1
      /\ svPc = "done" =>
           /\ aggregate # None
           /\ aggregate[1].results = results
           /\ aggregate[1].sample_size = Cardinality(Answered)
           /\ \A p \in 1..n_personas : cycles[p] = 1

\* the first persona was missed, the batch went on, a later one answered
C7_Witness ==
    /\ svMode = "survey"
    /\ svPc = "done"
    /\ n_personas >= 2
    /\ aggregate[1].sample_size = 1
    /\ ResultIds = <<2>>

\* ---- properties of the error handling of one retry cycle ------------------
\* the errors the function retries: openai.RateLimitError, openai.APIError
Transient(e) == e.outcome \in {"RateLimitError", "APIError"}

\* time.sleep was called in the handler of attempt k
SleptAt(k) == \E j \in DOMAIN sleepLog : sleepLog[j].attempt = k

\* C19: a transient error at attempt k (from 0) is followed by a sleep of
\* backoff_factor ** k before any further attempt, so the waits after
\* successive transient failures are 1, f, f^2, ...; a validation failure
\* is retried without sleeping; after max_retries transient failures the
\* function returns no result.
C19_TransientBackoff ==
    /\ \A j \in DOMAIN sleepLog :
         /\ sleepLog[j].wait = Pow(backoff_factor, sleepLog[j].attempt)
         /\ Transient(callLog[sleepLog[j].attempt + 1])
    /\ \A j \in 1..(Len(sleepLog) - 1) :
         sleepLog[j].attempt < sleepLog[j + 1].attempt
    /\ \A k \in DOMAIN callLog :
         /\ (Transient(callLog[k]) /\ (k < Len(callLog) \/ svPc = "attempt"))
               => SleptAt(k - 1)
         /\ callLog[k].outcome = "response" => ~SleptAt(k - 1)
         /\ (callLog[k].outcome = "response" /\ ~callLog[k].valid
             /\ k < max_retries /\ svPc # "loop") =>
               (k < Len(callLog) \/ svPc = "attempt")
    /\ (\A k \in DOMAIN callLog : Transient(callLog[k])) =>
         \A j \in DOMAIN sleepLog :
            sleepLog[j] = [attempt |-> j - 1,
                           wait |-> Pow(backoff_factor, j - 1)]
    /\ (/\ svPc \in {"returned", "done"}
        /\ Len(callLog) = max_retries
        /\ \A k \in DOMAIN callLog : Transient(callLog[k])) =>
         response = None

\* three throttled attempts with factor 2: waits 1, 2, 4 and no result
C19_Witness ==
    /\ svPc = "returned"
    /\ max_retries = 3
    /\ backoff_factor = 2
    /\ Len(callLog) = 3
    /\ \A k \in DOMAIN callLog : callLog[k].outcome = "RateLimitError"
    /\ sleepLog = <<[attempt |-> 0, wait |-> 1], [attempt |-> 1, wait |-> 2],
                    [attempt |-> 2, wait |-> 4]>>
    /\ response = None

ReinforcedAttempts == {k \in DOMAIN callLog : callLog[k].prompt = "reinforced"}

\* C21: after a numeric-rating rejection the function retries once with
\* the reinforced prompt before giving up: at most one attempt of a cycle
\* is made with the reinforced prompt.
C21_OneReinforcedAttempt == Cardinality(ReinforcedAttempts) <= 1

\* C24: every call to the text service that returned a response during a
\* survey appends exactly one record to the cost tracker: after run_survey
\* the number of recorded calls equals the number of service calls that
\* returned a response, and total_cost the summed cost of those calls.
C24_EveryResponseRecorded ==
    (svMode = "survey" /\ svPc \in {"done", "raised"}) =>
       /\ Len(calls) = svcResponses
       /\ total_cost = svcCost

\* ========================================================================
\* src/ssr/calculator.py : SSRCalculator ; src/ssr/utils.py
\* ========================================================================
\* embeddings are integer vectors of dimension 2 whose norms are integers
Vectors == {<<0, 0>>, <<1, 0>>, <<-1, 0>>, <<0, 1>>, <<3, 4>>}

NoVec == <<>>

Dot(a, b) == a[1] * b[1] + a[2] * b[2]
Sub(a, b) == <<a[1] - b[1], a[2] - b[2]>>
Norm(v) == CHOOSE n \in 0..Dot(v, v) : n * n = Dot(v, v)

\* a similarity is num / (den + eps * 1e-10)
\* cosine_similarity(vec_a, vec_b)
cosine_similarity(a, b) ==
    IF Norm(a) = 0 \/ Norm(b) = 0 THEN [num |-> 0, den |-> 1, eps |-> 0]
    ELSE [num |-> Dot(a, b), den |-> Norm(a) * Norm(b), eps |-> 0]

\* dots / (norms_resp * norm + 1e-10) of calculate_batch
BatchSimilarity(a, b) ==
    [num |-> Dot(a, b), den |-> Norm(a) * Norm(b), eps |-> 1]

\* score = ((sim_pos - sim_neg) / 2 + 1) / 2, kept as its two similarities
SimpleScoreSwapped(sp, sn) == [sim_pos |-> sn, sim_neg |-> sp]
SimpleScore(sp, sn) == [sim_pos |-> sp, sim_neg |-> sn]

\* one projection result (SSRResult); the rationals are num / den
\* np.clip(raw_projection, 0.0, 1.0) of raw = num / den, den > 0
ClipNone(num, den) == [num |-> num, den |-> den]
Clip(num, den) ==
    IF num < 0 THEN [num |-> 0, den |-> 1]
    ELSE IF num > den THEN [num |-> 1, den |-> 1]
    ELSE [num |-> num, den |-> den]

\* the outlier type of raw = num / den, den > 0
OutlierTypeInclusive(num, den) ==
    IF num <= 0 THEN "extreme_negative"
    ELSE IF num >= den THEN "extreme_positive" ELSE "normal"
OutlierTypeOf(num, den) ==
    IF num < 0 THEN "extreme_negative"
    ELSE IF num > den THEN "extreme_positive" ELSE "normal"

ProjectionResult(r, pos, neg) ==
    LET axis == Sub(pos, neg)
        axis_norm_sq == Dot(axis, axis)
        num == Dot(Sub(r, neg), axis)
    IN  IF axis_norm_sq = 0
        THEN [score |-> [num |-> 1, den |-> 2],
              raw_projection |-> [num |-> 1, den |-> 2],
              outlier_type |-> "normal", is_outlier |-> FALSE]
        ELSE [score |-> Clip(num, axis_norm_sq),
              raw_projection |-> [num |-> num, den |-> axis_norm_sq],
              outlier_type |-> OutlierTypeOf(num, axis_norm_sq),
              is_outlier |-> OutlierTypeOf(num, axis_norm_sq) # "normal"]

Ok(value) == [kind |-> "ok", msg |-> "", value |-> value]
Raise(kind, msg) == [kind |-> kind, msg |-> msg, value |-> <<>>]

NotInitializedError ==
    Raise("ValueError", "Anchors not initialized. Call initialize_anchors() or set_anchor_embeddings() first.")
UnknownMethodError == Raise("ValueError", "Unknown method")
NoEmbeddingFnError == Raise("ValueError", "Embedding function not set")
\* arithmetic of numpy on an anchor that is None
NoneOperandError == Raise("TypeError", "")
\* the embedding function raised
EmbeddingError == Raise("EmbeddingError", "")

\* numpy is handed an anchor that is None
AnchorIsNone == pos_vec = NoVec \/ neg_vec = NoVec

\* _ensure_initialized raises
EnsureRaisesOnlyIfBoth == ~initialized /\ pos_vec = NoVec
EnsureRaises == ~initialized \/ pos_vec = NoVec

Methods == {"simple", "projection", "other"}

\* calculate_simple(response_vec)
SimpleOf(r) ==
    IF EnsureRaises THEN NotInitializedError
    ELSE IF AnchorIsNone THEN NoneOperandError
    ELSE Ok(<<SimpleScore(cosine_similarity(r, pos_vec),
                          cosine_similarity(r, neg_vec))>>)

\* calculate_projection_with_outlier_detection(response_vec)
ProjectionDetailOf(r) ==
    IF EnsureRaises THEN NotInitializedError
    ELSE IF AnchorIsNone THEN NoneOperandError
    ELSE Ok(<<ProjectionResult(r, pos_vec, neg_vec)>>)

\* calculate_projection(response_vec): result.score
ProjectionOf(r) ==
    LET d == ProjectionDetailOf(r)
    IN  IF d.kind = "ok" THEN Ok(<<[score |-> d.value[1].score]>>) ELSE d

\* calculate(response_vec, method)
CalculateOf(r, method) ==
    IF method = "simple" THEN SimpleOf(r)
    ELSE IF method = "projection" THEN ProjectionOf(r)
    ELSE UnknownMethodError

\* calculate_batch_with_outlier_detection(response_vecs)
BatchDetailOf(rs) ==
    IF EnsureRaises THEN NotInitializedError
    ELSE IF AnchorIsNone THEN NoneOperandError
    ELSE Ok([i \in 1..Len(rs) |-> ProjectionResult(rs[i], pos_vec, neg_vec)])

\* calculate_batch(response_vecs, method)
BatchOf(rs, method) ==
    IF EnsureRaises THEN NotInitializedError
    ELSE IF method = "simple"
    THEN IF AnchorIsNone THEN NoneOperandError
         ELSE Ok([i \in 1..Len(rs) |->
                    SimpleScore(BatchSimilarity(rs[i], pos_vec),
                                BatchSimilarity(rs[i], neg_vec))])
    ELSE IF method = "projection"
    THEN LET d == BatchDetailOf(rs)
         IN  IF d.kind = "ok"
             THEN Ok([i \in 1..Len(rs) |-> [score |-> d.value[i].score]])
             ELSE d
    ELSE UnknownMethodError

Batches == UNION {[1..k -> Vectors] : k \in 1..MaxBatch}

\* the response vectors and the method an operation was invoked with
Arg(vecs, method) == [vecs |-> vecs, method |-> method]
NoArg == Arg(<<>>, "")

\* SSRCalculator.__init__
CalcNew ==
    /\ embedding_fn \in {"None", "set"}
    /\ pos_vec = NoVec
    /\ neg_vec = NoVec
    /\ initialized = FALSE
    /\ calcOp = "__init__"
    /\ calcArg = NoArg
    /\ calcResult = Ok(<<>>)
    /\ preInitialized = FALSE

CalcIdle ==
    /\ embedding_fn = "None"
    /\ pos_vec = NoVec
    /\ neg_vec = NoVec
    /\ initialized = FALSE
    /\ calcOp = "idle"
    /\ calcArg = NoArg
    /\ calcResult = Ok(<<>>)
    /\ preInitialized = FALSE

\* an operation that only reads the anchors
Scoring(op, arg, result) ==
    /\ calcOp' = op
    /\ calcArg' = arg
    /\ calcResult' = result
    /\ preInitialized' = initialized
    /\ UNCHANGED <<embedding_fn, pos_vec, neg_vec, initialized>>

\* initialize_anchors(): the embedding function may raise on either call
initialize_anchors ==
    /\ calcOp' = "initialize_anchors"
    /\ calcArg' = NoArg
    /\ preInitialized' = initialized
    /\ IF embedding_fn = "None"
       THEN /\ calcResult' = NoEmbeddingFnError
            /\ UNCHANGED <<pos_vec, neg_vec, initialized>>
       ELSE \/ /\ calcResult' = EmbeddingError
               /\ UNCHANGED <<pos_vec, neg_vec, initialized>>
            \/ \E p \in Vectors :
                 /\ pos_vec' = p
                 /\ calcResult' = EmbeddingError
                 /\ UNCHANGED <<neg_vec, initialized>>
            \/ \E p, n \in Vectors :
                 /\ pos_vec' = p
                 /\ neg_vec' = n
                 /\ initialized' = TRUE
                 /\ calcResult' = Ok(<<>>)
    /\ UNCHANGED embedding_fn

\* set_anchor_embeddings(pos_vec, neg_vec); either argument may be None
set_anchor_embeddings ==
    /\ calcOp' = "set_anchor_embeddings"
    /\ calcArg' = NoArg
    /\ preInitialized' = initialized
    /\ \E p, n \in Vectors \cup {NoVec} :
         /\ pos_vec' = p
         /\ neg_vec' = n
    /\ initialized' = TRUE
    /\ calcResult' = Ok(<<>>)
    /\ UNCHANGED embedding_fn

calculate ==
    \E r \in Vectors, method \in Methods :
        Scoring("calculate", Arg(<<r>>, method), CalculateOf(r, method))

calculate_simple ==
    \E r \in Vectors :
        Scoring("calculate_simple", Arg(<<r>>, "simple"), SimpleOf(r))

calculate_projection ==
    \E r \in Vectors :
        Scoring("calculate_projection", Arg(<<r>>, "projection"),
                ProjectionOf(r))

calculate_projection_with_outlier_detection ==
    \E r \in Vectors :
        Scoring("calculate_projection_with_outlier_detection",
                Arg(<<r>>, "projection"), ProjectionDetailOf(r))

calculate_batch ==
    \E rs \in Batches, method \in Methods :
        Scoring("calculate_batch", Arg(rs, method), BatchOf(rs, method))

calculate_batch_with_outlier_detection ==
    \E rs \in Batches :
        Scoring("calculate_batch_with_outlier_detection",
                Arg(rs, "projection"), BatchDetailOf(rs))

\* ---- properties of the calculator ---------------------------------------
ScoringOps ==
    {"calculate", "calculate_simple", "calculate_projection",
     "calculate_projection_with_outlier_detection", "calculate_batch",
     "calculate_batch_with_outlier_detection"}

\* C10: a new calculator is not initialized; _initialized turns true only
\* in initialize_anchors or set_anchor_embeddings; a scoring operation
\* invoked while it is false ends in a ValueError and returns no score; and
\* initialize_anchors without an embedding function raises ValueError and
\* leaves the anchors and _initialized as they were.
C10_ScoringNeedsAnchors ==
    /\ calcOp = "__init__" => (~initialized /\ pos_vec = NoVec)
    /\ (~preInitialized /\ initialized) =>
          calcOp \in {"initialize_anchors", "set_anchor_embeddings"}
    /\ (calcOp \in ScoringOps /\ ~preInitialized) =>
          /\ calcResult.kind = "ValueError"
          /\ calcResult.value = <<>>
          /\ ~initialized
    /\ (calcOp = "initialize_anchors" /\ embedding_fn = "None") =>
          /\ calcResult = NoEmbeddingFnError
          /\ initialized = preInitialized

\* scoring was refused although a positive anchor had been stored by an
\* initialize_anchors that failed on the second embedding
C10_Witness ==
    /\ calcOp \in ScoringOps
    /\ ~preInitialized
    /\ pos_vec # NoVec
    /\ calcResult = NotInitializedError

\* ---- properties of the scores -------------------------------------------
RatEq(a, b) == a.num * b.den = b.num * a.den
RatLess(a, b) == a.num * b.den < b.num * a.den
Half == [num |-> 1, den |-> 2]
One == [num |-> 1, den |-> 1]
Zero == [num |-> 0, den |-> 1]

\* ((sp - sn) / 2 + 1) / 2 for two similarities without the 1e-10 term
SimpleValue(sp, sn) ==
    [num |-> sp.num * sn.den - sn.num * sp.den + 2 * sp.den * sn.den,
     den |-> 4 * sp.den * sn.den]

AnchorCos == cosine_similarity(pos_vec, neg_vec)
Antipodal == AnchorCos.num = -AnchorCos.den

SimpleDone ==
    /\ calcOp \in {"calculate", "calculate_simple"}
    /\ calcArg.method = "simple"
    /\ calcResult.kind = "ok"

\* the statement that the anchors themselves score 1.0 and 0.0 with the
\* simple method for every anchored pair, and an equidistant response 0.5
C13_SimpleAnchorsScoreEnds ==
    SimpleDone =>
      LET r == calcArg.vecs[1]
          v == SimpleValue(calcResult.value[1].sim_pos,
                           calcResult.value[1].sim_neg)
      IN  /\ r = pos_vec => RatEq(v, One)
          /\ r = neg_vec => RatEq(v, Zero)
          /\ RatEq(cosine_similarity(r, pos_vec),
                   cosine_similarity(r, neg_vec)) => RatEq(v, Half)

\* C13: with the simple method score = ((cos(r,pos) - cos(r,neg)) / 2 + 1) / 2;
\* a response equally similar to both anchors scores 0.5; a nonzero positive
\* anchor scores (3 - cos(pos,neg)) / 4 and a nonzero negative anchor
\* (1 + cos(pos,neg)) / 4, which are 1.0 and 0.0 exactly when the anchors
\* point in opposite directions (cos(pos,neg) = -1).
C13_SimpleScoreOfAnchors ==
    SimpleDone =>
      LET r == calcArg.vecs[1]
          cp == cosine_similarity(r, pos_vec)
          cn == cosine_similarity(r, neg_vec)
          c == AnchorCos
          v == SimpleValue(calcResult.value[1].sim_pos,
                           calcResult.value[1].sim_neg)
      IN  /\ RatEq(v, SimpleValue(cp, cn))
          /\ RatEq(cp, cn) => RatEq(v, Half)
          /\ (r = pos_vec /\ Norm(pos_vec) # 0) =>
               RatEq(v, [num |-> 3 * c.den - c.num, den |-> 4 * c.den])
          /\ (r = neg_vec /\ Norm(neg_vec) # 0) =>
               RatEq(v, [num |-> c.den + c.num, den |-> 4 * c.den])
          /\ Antipodal => /\ r = pos_vec => RatEq(v, One)
                          /\ r = neg_vec => RatEq(v, Zero)
          /\ (r = pos_vec /\ RatEq(v, One)) => Antipodal
          /\ (r = neg_vec /\ RatEq(v, Zero)) => Antipodal

\* the positive anchor of a pair at right angles was scored: 0.75
C13_Witness ==
    /\ SimpleDone
    /\ calcArg.vecs[1] = pos_vec
    /\ AnchorCos.num = 0 /\ Norm(pos_vec) # 0 /\ Norm(neg_vec) # 0
    /\ RatEq(SimpleValue(calcResult.value[1].sim_pos,
                         calcResult.value[1].sim_neg),
             [num |-> 3, den |-> 4])

ProjectionDone ==
    /\ calcOp \in {"calculate", "calculate_projection",
                   "calculate_projection_with_outlier_detection"}
    /\ calcArg.method = "projection"
    /\ calcResult.kind = "ok"

DetailDone ==
    /\ calcOp \in {"calculate_projection_with_outlier_detection",
                   "calculate_batch_with_outlier_detection"}
    /\ calcResult.kind = "ok"

Axis == Sub(pos_vec, neg_vec)

\* raw = ((r - neg) . axis) / (axis . axis), when axis . axis # 0
Raw(r) == [num |-> Dot(Sub(r, neg_vec), Axis), den |-> Dot(Axis, Axis)]

\* C14: with the projection method raw = ((r - neg) . axis) / (axis . axis)
\* and score = clamp(raw, 0, 1): the positive anchor scores 1.0, the negative
\* anchor 0.0, every score lies in [0, 1]; when axis . axis = 0 every
\* response scores 0.5 and is classified normal.
C14_ProjectionClamped ==
    ProjectionDone =>
      LET r == calcArg.vecs[1]
          res == calcResult.value[1]
          raw == Raw(r)
      IN  /\ ~RatLess(res.score, Zero) /\ ~RatLess(One, res.score)
          /\ Dot(Axis, Axis) # 0 =>
               /\ RatLess(raw, Zero) => RatEq(res.score, Zero)
               /\ RatLess(One, raw) => RatEq(res.score, One)
               /\ (~RatLess(raw, Zero) /\ ~RatLess(One, raw)) =>
                    RatEq(res.score, raw)
               /\ r = pos_vec => RatEq(res.score, One)
               /\ r = neg_vec => RatEq(res.score, Zero)
          /\ Dot(Axis, Axis) = 0 =>
               /\ RatEq(res.score, Half)
               /\ calcOp = "calculate_projection_with_outlier_detection" =>
                    (res.outlier_type = "normal" /\ ~res.is_outlier)

\* a response beyond the positive anchor was scored 1.0
C14_Witness ==
    /\ ProjectionDone
    /\ Dot(Axis, Axis) # 0
    /\ RatLess(One, Raw(calcArg.vecs[1]))
    /\ RatEq(calcResult.value[1].score, One)

\* C15: the outlier type depends only on the unclamped raw value:
\* extreme_negative iff raw < 0, extreme_positive iff raw > 1, normal
\* otherwise (raw exactly 0 or 1 is normal); a score is returned whatever
\* the type, and the result keeps the clamped score and the raw value.
C15_OutlierFromRaw ==
    /\ DetailDone =>
         \A i \in DOMAIN calcResult.value :
           LET res == calcResult.value[i]
               raw == IF Dot(Axis, Axis) = 0 THEN Half
                      ELSE Raw(calcArg.vecs[i])
           IN  /\ RatEq(res.raw_projection, raw)
               /\ (res.outlier_type = "extreme_negative") <=> RatLess(raw, Zero)
               /\ (res.outlier_type = "extreme_positive") <=> RatLess(One, raw)
               /\ (res.outlier_type = "normal") <=>
                    (~RatLess(raw, Zero) /\ ~RatLess(One, raw))
               /\ res.is_outlier <=> (res.outlier_type # "normal")
               /\ ~RatLess(res.score, Zero) /\ ~RatLess(One, res.score)
               /\ res.is_outlier => ~RatEq(res.score, res.raw_projection)
    /\ (/\ calcOp \in {"calculate_projection_with_outlier_detection",
                       "calculate_batch_with_outlier_detection"}
        /\ preInitialized /\ ~AnchorIsNone) =>
         /\ calcResult.kind = "ok"
         /\ Len(calcResult.value) = Len(calcArg.vecs)

\* one batch holds a response with raw exactly 1 (normal) and one with
\* raw > 1 (extreme_positive, score clamped to 1)
C15_Witness ==
    /\ DetailDone
    /\ \E i, j \in DOMAIN calcResult.value :
         /\ RatEq(calcResult.value[i].raw_projection, One)
         /\ calcResult.value[i].outlier_type = "normal"
         /\ RatLess(One, calcResult.value[j].raw_projection)
         /\ calcResult.value[j].outlier_type = "extreme_positive"
         /\ RatEq(calcResult.value[j].score, One)

\* a batch similarity num / (den + 1e-10) against the single-item one
SimAgree(b, s) ==
    IF b.den = 0 THEN s.num = 0 ELSE b.num * s.den = s.num * b.den

\* (sp - sn) computed from p / (d1 + e) and q / (d2 + e) with e = 1e-10
\* equals p / d1 - q / d2 only if both dot products are 0 or both
\* similarities are the same number
SameSimpleScore(b, s) ==
    /\ SimAgree(b.sim_pos, s.sim_pos)
    /\ SimAgree(b.sim_neg, s.sim_neg)
    /\ \/ b.sim_pos.num = 0 /\ b.sim_neg.num = 0
       \/ b.sim_pos.num = b.sim_neg.num /\ b.sim_pos.den = b.sim_neg.den

NonzeroVecs == \A i \in DOMAIN calcArg.vecs : Norm(calcArg.vecs[i]) # 0

\* C16: for both methods and every list of nonzero embeddings
\* calculate_batch returns at each index the score of the single-item call,
\* and calculate_batch_with_outlier_detection the outlier type of the
\* single-item detection.
C16_BatchEqualsSingle ==
    /\ (calcOp = "calculate_batch" /\ calcResult.kind = "ok" /\ NonzeroVecs) =>
         /\ Len(calcResult.value) = Len(calcArg.vecs)
         /\ \A i \in DOMAIN calcArg.vecs :
              LET single == CalculateOf(calcArg.vecs[i], calcArg.method)
                  b == calcResult.value[i]
              IN  /\ single.kind = "ok"
                  /\ IF calcArg.method = "simple"
                     THEN SameSimpleScore(b, single.value[1])
                     ELSE RatEq(b.score, single.value[1].score)
    /\ (/\ calcOp = "calculate_batch_with_outlier_detection"
        /\ calcResult.kind = "ok" /\ NonzeroVecs) =>
         \A i \in DOMAIN calcArg.vecs :
            calcResult.value[i].outlier_type =
               ProjectionDetailOf(calcArg.vecs[i]).value[1].outlier_type

\* ========================================================================
\* src/ssr/anchors.py : validate_anchor_orthogonality
\* ========================================================================
\* thresholds and similarities are the rationals num / den, den > 0
SIMILARITY_WARNING_THRESHOLD == [num |-> 3, den |-> 5]
SIMILARITY_CRITICAL_THRESHOLD == [num |-> 4, den |-> 5]

SUGGESTED_ALTERNATIVES(key) ==
    CASE key = "high_contrast" ->
           [positive |-> "I absolutely love this and must have it immediately.",
            negative |-> "I completely hate this and would never consider it."]
      [] key = "extreme_polar" ->
           [positive |-> "This is perfect. Take my money right now.",
            negative |-> "This is worthless garbage. Absolutely not."]

NoAlternative == <<>>

\* anchor embeddings: integer vectors of dimension 5 with integer norms;
\* against UnitVec the others have cosine 1, 0.85, 0.8, 0.65, 0.6, 0.2,
\* 0 and -1
UnitVec == <<1, 0, 0, 0, 0>>
AnchorEmbeddings ==
    {UnitVec, <<17, 10, 3, 1, 1>>, <<16, 12, 0, 0, 0>>, <<13, 14, 5, 3, 1>>,
     <<12, 16, 0, 0, 0>>, <<4, 16, 8, 8, 0>>, <<0, 1, 0, 0, 0>>,
     <<-1, 0, 0, 0, 0>>, <<0, 0, 0, 0, 0>>, <<0, 0, 3, 4, 0>>}

\* np.dot and np.linalg.norm on the anchor embeddings
AnchorDot(a, b) == SumSeq([i \in DOMAIN a |-> a[i] * b[i]])
AnchorNorm(v) == CHOOSE n \in 0..AnchorDot(v, v) : n * n = AnchorDot(v, v)

\* _cosine_similarity(vec_a, vec_b)
AnchorCosine(a, b) ==
    IF AnchorNorm(a) = 0 \/ AnchorNorm(b) = 0 THEN [num |-> 0, den |-> 1]
    ELSE [num |-> AnchorDot(a, b), den |-> AnchorNorm(a) * AnchorNorm(b)]

\* similarity >= threshold
Exceeds(s, t) == s.num * t.den > t.num * s.den
AtLeast(s, t) == s.num * t.den >= t.num * s.den

\* validate_anchor_orthogonality(pos_embedding, neg_embedding)
AnchorValidationResult(pos, neg, warning_threshold, critical_threshold) ==
    LET similarity == AnchorCosine(pos, neg)
    IN  IF AtLeast(similarity, critical_threshold)
        THEN [is_valid |-> FALSE, similarity |-> similarity,
              warning_level |-> "critical",
              suggested_alternative |-> SUGGESTED_ALTERNATIVES("extreme_polar")]
        ELSE IF AtLeast(similarity, warning_threshold)
        THEN [is_valid |-> TRUE, similarity |-> similarity,
              warning_level |-> "warning",
              suggested_alternative |-> SUGGESTED_ALTERNATIVES("high_contrast")]
        ELSE [is_valid |-> TRUE, similarity |-> similarity,
              warning_level |-> "ok",
              suggested_alternative |-> NoAlternative]

OrthoIdle ==
    /\ pos_embedding = <<>>
    /\ neg_embedding = <<>>
    /\ orthoResult = <<>>
    /\ orthoPc = "idle"

OrthoInputs ==
    /\ pos_embedding \in AnchorEmbeddings
    /\ neg_embedding \in AnchorEmbeddings
    /\ orthoResult = <<>>
    /\ orthoPc = "input"

validate_anchor_orthogonality ==
    /\ orthoPc = "input"
    /\ orthoResult' = <<AnchorValidationResult(pos_embedding, neg_embedding,
                                               SIMILARITY_WARNING_THRESHOLD,
                                               SIMILARITY_CRITICAL_THRESHOLD)>>
    /\ orthoPc' = "done"
    /\ UNCHANGED <<pos_embedding, neg_embedding>>

\* ---- properties of the orthogonality check -------------------------------
\* the similarity of the pair as k hundredths, when it is one
IsHundredths(s, k) == s.num * 100 = k * s.den

\* C12: similarity >= 0.8 is critical and invalid, 0.6 <= similarity < 0.8
\* is a warning and valid, similarity < 0.6 is ok and valid (0.85 critical,
\* 0.65 warning, 0.2 ok); critical and warning carry a suggested anchor
\* pair, ok carries none.
C12_OrthogonalityLevels ==
    orthoPc = "done" =>
      LET res == orthoResult[1]
          s == res.similarity
          hi == s.num * 5 >= 4 * s.den
          mid == s.num * 5 >= 3 * s.den
      IN  /\ s = AnchorCosine(pos_embedding, neg_embedding)
          /\ hi => (res.warning_level = "critical" /\ ~res.is_valid)
          /\ (mid /\ ~hi) => (res.warning_level = "warning" /\ res.is_valid)
          /\ ~mid => (res.warning_level = "ok" /\ res.is_valid)
          /\ IsHundredths(s, 85) => res.warning_level = "critical"
          /\ IsHundredths(s, 65) => res.warning_level = "warning"
          /\ IsHundredths(s, 20) => res.warning_level = "ok"
          /\ res.warning_level \in {"critical", "warning"} =>
               /\ res.suggested_alternative # NoAlternative
               /\ res.suggested_alternative.positive #
                    res.suggested_alternative.negative
          /\ res.warning_level = "ok" => res.suggested_alternative = NoAlternative

\* a pair whose similarity is exactly the critical threshold
C12_Witness ==
    /\ orthoPc = "done"
    /\ IsHundredths(orthoResult[1].similarity, 80)
    /\ orthoResult[1].warning_level = "critical"
    /\ pos_embedding # neg_embedding

\* ---- the orthogonality check and the calculator --------------------------
\* similarity of the calculator's anchors reaches the critical threshold
AnchorsCritical ==
    /\ pos_vec # NoVec /\ neg_vec # NoVec
    /\ AtLeast(cosine_similarity(pos_vec, neg_vec),
               SIMILARITY_CRITICAL_THRESHOLD)

\* C11: a pair of anchors whose similarity is >= 0.8 blocks scoring: no
\* scoring operation returns a score computed with such a pair.
C11_CriticalPairBlocksScoring ==
    (calcOp \in ScoringOps /\ calcResult.kind = "ok") => ~AnchorsCritical

\* ========================================================================
\* backend/app/services/persona_generation.py : population generation
\* ========================================================================
\* A random generator is a state in 0..RngMod-1; a draw advances the state
\* and yields it. What numpy computes from a state is fixed by the state.
\* random_seed is None or an integer: <<>> or <<seed>>
NoSeed == <<>>
Seeds == {NoSeed} \cup {<<s>> : s \in 0..MaxSeed}

\* np.random.seed(seed)
SeedState(seed) == (3 * seed + 1) % RngMod

\* np.random.default_rng(seed)
DefaultRng(seed) == (5 * seed + 2) % RngMod

Advance(s) == (2 * s + 3) % RngMod

RECURSIVE Skip(_, _)
Skip(s, k) == IF k = 0 THEN s ELSE Skip(Advance(s), k - 1)

\* an array of count draws from state s
Draws(s, count) == [i \in 1..count |-> Skip(s, i)]

\* if random_seed is not None: np.random.seed(random_seed)
SeededIgnored(state, seed) == state
Seeded(state, seed) ==
    IF seed = NoSeed THEN state ELSE SeedState(seed[1])

\* rng.choice(core, k, replace=False)
Choice(core, k, draw) ==
    [j \in 1..k |-> core[((draw + j - 1) % Len(core)) + 1]]

\* the subset drawn when rng.random() is not below threshold / 10
Vary(core, g0, threshold) ==
    LET u == Advance(g0)
        k == 1 + (Advance(u) % Len(core))
    IN  IF Len(core) <= 1 \/ 10 * u < threshold * RngMod THEN core
        ELSE Choice(core, k, Advance(Advance(u)))

\* _vary_pain_points(core_points, seed): rng.random() < 0.6 keeps the list
_vary_pain_points(core_points, seed) ==
    Vary(core_points, DefaultRng(seed), 6)

\* _vary_decision_drivers(core_drivers, seed): default_rng(seed + 1000), 0.7
_vary_decision_drivers(core_drivers, seed) ==
    Vary(core_drivers, DefaultRng(seed + 1000), 7)

\* np.clip(np.random.normal(...), lo, hi).astype(int)
AgeOf(age_range, draw) ==
    age_range[1] + (draw % (age_range[2] - age_range[1] + 1))

\* np.random.choice(gender_choices, p=gender_probs)
GenderOf(draw) == IF draw % 2 = 0 THEN "female" ELSE "male"

\* generate_personas_for_archetype(archetype, count, start_id, random_seed)
\* started with the global generator in `state`: the personas and the state
\* it leaves. Ages are drawn first, then genders; income bracket, income
\* value, usage and shopping behaviour are further draws of the same kind.
PersonasForArchetype(archetype, count, start_id, seed, state) ==
    LET s0 == Seeded(state, seed)
        ages == Draws(s0, count)
        genders == Draws(Skip(s0, count), count)
    IN  [personas |->
           [i \in 1..count |->
              [id |-> start_id + i,
               segment_id |-> archetype.segment_id,
               age |-> AgeOf(archetype.age_range, ages[i]),
               gender |-> GenderOf(genders[i]),
               pain_points |->
                  _vary_pain_points(archetype.pain_points, start_id + i - 1),
               decision_drivers |->
                  _vary_decision_drivers(archetype.decision_drivers,
                                         start_id + i - 1)]],
         state |-> Skip(s0, 2 * count)]

\* generate_synthetic_sample(core_persona, sample_size, random_seed)
SyntheticSample(core_persona, n, seed, state) ==
    PersonasForArchetype(core_persona, n, 0, seed, state)

\* the loop of generate_enriched_personas_from_archetypes over the plan
RECURSIVE EnrichedLoop(_, _, _, _, _, _)
EnrichedLoop(archs, plan, i, current_id, seed, state) ==
    IF i > Len(plan) THEN [personas |-> <<>>, state |-> state]
    ELSE LET archetype ==
                 CHOOSE a \in Range(archs) : a.segment_id = plan[i].segment_id
             segment_seed ==
                 IF seed = NoSeed THEN NoSeed ELSE <<seed[1] + current_id>>
             seg == PersonasForArchetype(archetype, plan[i].count, current_id,
                                         segment_seed, state)
             rest == EnrichedLoop(archs, plan, i + 1,
                                  current_id + plan[i].count, seed, seg.state)
         IN  [personas |-> seg.personas \o rest.personas,
              state |-> rest.state]

\* generate_enriched_personas_from_archetypes(..., enrich=False)
EnrichedPersonas(archs, total, seed, state) ==
    EnrichedLoop(archs, DistributePlan(archs, total), 1, 0, seed, state)

Points == <<"price", "quality", "delivery">>

CoreConfigs ==
    {[segment_id |-> 1, share |-> ShareDen, age_range |-> <<20, 30>>,
      pain_points |-> Points, decision_drivers |-> SubSeq(Points, 1, 2)],
     [segment_id |-> 2, share |-> 0, age_range |-> <<40, 40>>,
      pain_points |-> SubSeq(Points, 1, 1), decision_drivers |-> Points]}

\* two segments; the shares need not add up to one
ArchetypeLists ==
    {<<[segment_id |-> 1, share |-> sh, age_range |-> <<20, 30>>,
        pain_points |-> Points, decision_drivers |-> SubSeq(Points, 1, 2)],
       [segment_id |-> 2, share |-> ShareDen - sh, age_range |-> <<40, 40>>,
        pain_points |-> SubSeq(Points, 1, 2), decision_drivers |-> Points]>> :
       sh \in {ShareDen \div 2, ShareDen}}

NoRun == <<>>

GenIdle ==
    /\ np_state = 0
    /\ refRun = NoRun
    /\ lastRun = NoRun
    /\ genCount = 0

\* the process starts with the global generator seeded from the system
GenStart ==
    /\ np_state \in 0..(RngMod - 1)
    /\ refRun = NoRun
    /\ lastRun = NoRun
    /\ genCount = 0

\* a generation call returns: its arguments and result join the history;
\* refRun is the first call that was given a seed
Generated(fn, cfg, n, start_id, seed, res) ==
    LET run == [fn |-> fn, cfg |-> cfg, n |-> n, start_id |-> start_id,
                seed |-> seed, out |-> res.personas]
    IN  /\ np_state' = res.state
        /\ lastRun' = run
        /\ refRun' = IF refRun = NoRun /\ seed # NoSeed THEN run ELSE refRun
        /\ genCount' = IF refRun = NoRun /\ seed = NoSeed THEN 0
                       ELSE IF genCount < 2 THEN genCount + 1 ELSE genCount

generate_synthetic_sample ==
    \E core \in CoreConfigs, n \in 0..MaxCount, seed \in Seeds :
        Generated("generate_synthetic_sample", <<core>>, n, 0, seed,
                  SyntheticSample(core, n, seed, np_state))

generate_personas_for_archetype ==
    \E a \in CoreConfigs, n \in 0..MaxCount, start_id \in {0, 1},
       seed \in Seeds :
        Generated("generate_personas_for_archetype", <<a>>, n, start_id, seed,
                  PersonasForArchetype(a, n, start_id, seed, np_state))

generate_enriched_personas_from_archetypes ==
    \E archs \in ArchetypeLists, total \in 1..MaxCount,
       seed \in Seeds :
        Generated("generate_enriched_personas_from_archetypes", archs, total,
                  0, seed, EnrichedPersonas(archs, total, seed, np_state))

\* ---- properties of population generation ---------------------------------
SameArguments(a, b) ==
    /\ a.fn = b.fn /\ a.cfg = b.cfg /\ a.n = b.n
    /\ a.start_id = b.start_id /\ a.seed = b.seed

\* C17: two generation calls with the same function, the same segments or
\* core config, the same n and the same seed return identical persona
\* lists, varied pain points and decision drivers included, whatever was
\* drawn from the global generator in between.
C17_SeededGenerationDeterministic ==
    (/\ genCount >= 2
     /\ SameArguments(refRun, lastRun)
     /\ lastRun.seed # NoSeed) => lastRun.out = refRun.out

\* a seeded call was repeated and returned the same personas, one of them
\* with a proper subset of the pain points
C17_Witness ==
    /\ genCount >= 2
    /\ SameArguments(refRun, lastRun)
    /\ lastRun.seed # NoSeed
    /\ lastRun.out = refRun.out
    /\ Len(lastRun.out) >= 2
    /\ \E i \in DOMAIN lastRun.out :
          Len(lastRun.out[i].pain_points) < Len(Points)
          /\ lastRun.out[i].segment_id = 1

\* ========================================================================
\* src/personas/generator.py : generate_personas_targeted
\* ========================================================================
HIGH_INCOME_OCCUPATIONS == {"Doctor", "Software Engineer"}
LOW_INCOME_OCCUPATIONS == {"Student", "Retired"}

\* generate_persona_template: every attribute is drawn independently
TemplatePersonas ==
    [age : {30, 70}, gender : {"Male", "Female"},
     occupation : {"Student", "Doctor"}, location : {"Seoul"},
     income_bracket : {"Low", "High"}]

\* generate_persona_hybrid: the personas the consistency rules can turn a
\* template persona into (a student over 30 is given another occupation)
Hybrid(t) ==
    LET occupations == IF t.occupation = "Student" /\ t.age > 30
                       THEN {"Software Engineer", "Teacher"}
                       ELSE {t.occupation}
        incomes(o) == IF o \in HIGH_INCOME_OCCUPATIONS
                      THEN {"High", "Very High"}
                      ELSE IF o \in LOW_INCOME_OCCUPATIONS
                      THEN {"Low", "Medium"}
                      ELSE {t.income_bracket}
    IN  UNION {[age : {t.age}, gender : {t.gender}, occupation : {o},
                location : {t.location}, income_bracket : incomes(o)] :
               o \in occupations}

HybridPersonas == UNION {Hybrid(t) : t \in TemplatePersonas}

\* a filter that is absent or empty is <<>>
NoFilter == <<>>

\* the chain of `continue` tests of the loop body
MatchesFilters(persona, td) ==
    /\ td.age_range # NoFilter =>
          (td.age_range[1] <= persona.age /\ persona.age <= td.age_range[2])
    /\ td.gender # NoFilter => persona.gender \in Range(td.gender)
    /\ td.location # NoFilter => persona.location \in Range(td.location)
    /\ td.income_bracket # NoFilter =>
          persona.income_bracket \in Range(td.income_bracket)
    /\ td.occupation # NoFilter => persona.occupation \in Range(td.occupation)

TargetDemographics ==
    [age_range : {NoFilter, <<25, 35>>, <<99, 100>>},
     gender : {NoFilter, <<"Female">>},
     location : {NoFilter},
     income_bracket : {NoFilter, <<"High", "Very High">>},
     occupation : {NoFilter}]

TargetedIdle ==
    /\ sample_size = 0
    /\ target_demographics = <<>>
    /\ max_attempts = 0
    /\ personas = <<>>
    /\ attempts = 0
    /\ targetedPc = "idle"
    /\ targetedResult = <<>>

\* generate_personas_targeted is entered
TargetedStart ==
    /\ sample_size \in 0..MaxSample
    /\ target_demographics \in TargetDemographics
    /\ max_attempts \in 0..MaxAttempts
    /\ personas = <<>>
    /\ attempts = 0
    /\ targetedPc = "loop"
    /\ targetedResult = <<>>

\* while len(personas) < sample_size and attempts < max_attempts
LoopContinuesUnbounded == Len(personas) < sample_size
LoopContinues == Len(personas) < sample_size /\ attempts < max_attempts

\* one pass of the while loop
TargetedAttempt ==
    /\ targetedPc = "loop"
    /\ LoopContinues
    /\ attempts' = attempts + 1
    /\ \E persona \in HybridPersonas :
         personas' = IF MatchesFilters(persona, target_demographics)
                     THEN Append(personas, persona) ELSE personas
    /\ UNCHANGED <<sample_size, target_demographics, max_attempts, targetedPc,
                   targetedResult>>

\* the ValueError raised after the loop: "Could not generate {sample_size}
\* personas matching criteria. Only generated {len(personas)} after
\* {max_attempts} attempts."
CouldNotGenerate(requested, generated, after) ==
    [kind |-> "ValueError",
     msg |-> [requested |-> requested, generated |-> generated,
              attempts |-> after],
     value |-> <<>>]

\* the loop is left: raise on a shortfall, return the list otherwise
TargetedExit ==
    /\ targetedPc = "loop"
    /\ ~LoopContinues
    /\ IF Len(personas) < sample_size
       THEN /\ targetedPc' = "raised"
            /\ targetedResult' =
                 CouldNotGenerate(sample_size, Len(personas), max_attempts)
       ELSE /\ targetedPc' = "returned"
            /\ targetedResult' = [kind |-> "ok", msg |-> <<>>,
                                  value |-> personas]
    /\ UNCHANGED <<sample_size, target_demographics, max_attempts, personas,
                   attempts>>

\* ---- properties of targeted generation -----------------------------------
\* the statement that at most max_attempts generation attempts are made and
\* that a call which produced fewer than sample_size matching personas does not fail hard: it
\* hands back the partial population with its count; any other call returns
\* exactly sample_size personas that satisfy every requested filter.
C18_ShortfallNotHardFailure ==
    /\ attempts <= max_attempts
    /\ targetedPc \in {"returned", "raised"} =>
         IF Len(personas) < sample_size
         THEN /\ targetedResult.kind = "ok"
              /\ targetedResult.value = personas
         ELSE /\ targetedResult.kind = "ok"
              /\ Len(targetedResult.value) = sample_size
              /\ \A i \in DOMAIN targetedResult.value :
                   MatchesFilters(targetedResult.value[i], target_demographics)

\* C18: generate_personas_targeted makes at most max_attempts generation
\* attempts; when fewer than sample_size matching personas were produced
\* after max_attempts attempts it raises a ValueError that states the
\* requested number, the number produced and max_attempts, and returns no
\* personas; otherwise it returns exactly sample_size personas, each
\* satisfying every requested filter.
C18_ShortfallRaises ==
    /\ attempts <= max_attempts
    /\ targetedPc = "raised" =>
         /\ Len(personas) < sample_size
         /\ attempts = max_attempts
         /\ targetedResult =
              CouldNotGenerate(sample_size, Len(personas), max_attempts)
         /\ targetedResult.value = <<>>
    /\ targetedPc = "returned" =>
         /\ targetedResult.kind = "ok"
         /\ Len(targetedResult.value) = sample_size
         /\ \A i \in DOMAIN targetedResult.value :
              MatchesFilters(targetedResult.value[i], target_demographics)

\* one of two requested personas was found before the attempts ran out
C18_Witness ==
    /\ targetedPc = "raised"
    /\ Len(personas) = 1
    /\ sample_size = 2

\* ---- categorical weights before np.random.choice -------------------------
\* A weight list is a sequence of integers, one per choice; a probability
\* list is num[i] / den, or not finite (a division by a zero sum).
WeightLists == [1..NChoices -> (0 - 1)..MaxWeight]

RECURSIVE SumWeights(_, _)
SumWeights(ws, i) == IF i = 0 THEN 0 ELSE ws[i] + SumWeights(ws, i - 1)

Finite(num, den) == [finite |-> TRUE, num |-> num, den |-> den]
NotFinite == [finite |-> FALSE, num |-> <<>>, den |-> 1]

Uniform(n) == Finite([i \in 1..n |-> 1], n)

\* generate_synthetic_sample: np.maximum(probs, 0), then probs / sum if
\* sum > 0, else np.ones(n) / n
SyntheticProbs(ws) ==
    LET clamped == [i \in DOMAIN ws |-> Max(ws[i], 0)]
        total == SumWeights(clamped, Len(ws))
    IN  IF total > 0 THEN Finite(clamped, total) ELSE Uniform(Len(ws))

\* generate_personas_for_archetype: gender_probs / gender_probs.sum()
ArchetypeProbs(ws) ==
    LET total == SumWeights(ws, Len(ws))
    IN  IF total = 0 THEN NotFinite
        ELSE IF total > 0 THEN Finite(ws, total)
        ELSE Finite([i \in DOMAIN ws |-> 0 - ws[i]], 0 - total)

ProbsOf(fn, ws) ==
    IF fn = "generate_synthetic_sample" THEN SyntheticProbs(ws)
    ELSE ArchetypeProbs(ws)

\* the choice whose cumulative probability first exceeds draw / RngMod
RECURSIVE PickFrom(_, _, _, _)
PickFrom(p, draw, i, acc) ==
    IF i >= Len(p.num) \/ draw * p.den < (acc + p.num[i]) * RngMod THEN i
    ELSE PickFrom(p, draw, i + 1, acc + p.num[i])

\* np.random.choice(choices, p=p): ValueError when p holds NaN or a negative
\* entry, otherwise the index of the choice drawn
RandomChoice(p, draw) ==
    IF ~p.finite \/ \E i \in DOMAIN p.num : p.num[i] < 0
    THEN [kind |-> "ValueError", index |-> 0]
    ELSE [kind |-> "ok", index |-> PickFrom(p, draw, 1, 0)]

WeightsIdle ==
    /\ weightFn = "generate_synthetic_sample"
    /\ weights = [i \in 1..NChoices |-> 1]
    /\ weightDraw = 0
    /\ sampled = <<>>

WeightInputs ==
    /\ weightFn \in {"generate_synthetic_sample",
                     "generate_personas_for_archetype"}
    /\ weights \in WeightLists
    /\ weightDraw \in 0..(RngMod - 1)
    /\ sampled = <<>>

\* the weights are turned into probabilities and one value is sampled
SampleCategory ==
    /\ sampled = <<>>
    /\ LET p == ProbsOf(weightFn, weights)
       IN  sampled' = <<[probs |-> p, choice |-> RandomChoice(p, weightDraw)]>>
    /\ UNCHANGED <<weightFn, weights, weightDraw>>

\* C26: the categorical weights are turned into a probability distribution
\* before sampling: the probabilities are proportional to the weights and
\* sum to 1, and when the weights are all zero or negative the sampler uses
\* the uniform distribution over the choices instead of failing.
C26_WeightsNormalised ==
    sampled # <<>> =>
      LET p == sampled[1].probs
          positive == \E i \in DOMAIN weights : weights[i] > 0
      IN  /\ sampled[1].choice.kind = "ok"
          /\ p.finite
          /\ SumWeights(p.num, Len(p.num)) = p.den
          /\ \A i \in DOMAIN p.num : p.num[i] >= 0
          /\ ~positive => \A i, j \in DOMAIN p.num : p.num[i] = p.num[j]
          /\ positive =>
               \A i, j \in DOMAIN weights :
                  p.num[i] * Max(weights[j], 0) = p.num[j] * Max(weights[i], 0)

\* ========================================================================
\* backend/app/services/workflow.py : WorkflowService
\* ========================================================================
\* One workflow record. Optional fields are <<>> (None) or <<value>>;
\* concepts is the length of the concept list. An operation whose checks
\* fail raises ValueError and leaves the record as it was.
SampleSizes == {99, 100, 10000}
ConceptLimit == 5

NewWorkflow ==
    [status |-> "product_input", current_step |-> 1, product |-> <<>>,
     core_persona |-> <<>>, sample_size |-> <<>>, concepts |-> 0,
     persona_generation_job_id |-> <<>>, survey_execution_job_id |-> <<>>]

WorkflowIdle ==
    /\ workflow = NewWorkflow
    /\ generationCompleted = FALSE
    /\ wfOps = 0

\* create_workflow()
create_workflow ==
    /\ workflow = NewWorkflow
    /\ generationCompleted = FALSE
    /\ wfOps = 0

\* every operation ends with _save_to_database; wfOps counts them up to
\* MaxOps
Saved(w) ==
    /\ wfOps < MaxOps
    /\ workflow' = w
    /\ wfOps' = wfOps + 1

update_product ==
    /\ workflow.status \in {"product_input", "persona_building",
                            "persona_confirming", "sample_size_selection",
                            "generating_personas"}
    /\ Saved([workflow EXCEPT !.product = <<"product">>,
                              !.status = "persona_building",
                              !.current_step = 2,
                              !.persona_generation_job_id = <<>>])
    /\ UNCHANGED generationCompleted

update_core_persona ==
    /\ workflow.status \in {"persona_building", "persona_confirming",
                            "sample_size_selection", "generating_personas"}
    /\ Saved([workflow EXCEPT !.core_persona = <<"persona">>,
                              !.status = "persona_confirming",
                              !.current_step = 3,
                              !.persona_generation_job_id = <<>>])
    /\ UNCHANGED generationCompleted

confirm_persona ==
    /\ workflow.status \in {"persona_confirming", "sample_size_selection",
                            "generating_personas"}
    /\ Saved([workflow EXCEPT !.status = "sample_size_selection",
                              !.current_step = 4])
    /\ UNCHANGED generationCompleted

set_sample_size ==
    \E size \in SampleSizes :
        /\ workflow.status \in {"sample_size_selection", "generating_personas"}
        /\ 100 <= size /\ size <= 10000
        /\ Saved([workflow EXCEPT !.sample_size = <<size>>,
                                  !.status = "generating_personas",
                                  !.current_step = 5,
                                  !.persona_generation_job_id = <<>>])
        /\ UNCHANGED generationCompleted

update_concepts ==
    \E n \in 0..(ConceptLimit + 1) :
        /\ workflow.status \in {"generating_personas", "concepts_management",
                                "surveying"}
        /\ n >= 1
        /\ n <= ConceptLimit
        /\ Saved([workflow EXCEPT !.concepts = n,
                                  !.status = "concepts_management",
                                  !.current_step = 6,
                                  !.survey_execution_job_id = <<>>])
        /\ UNCHANGED generationCompleted

confirm_concepts ==
    /\ workflow.status = "concepts_management"
    /\ workflow.concepts # 0
    /\ Saved([workflow EXCEPT !.status = "surveying", !.current_step = 7])
    /\ UNCHANGED generationCompleted

start_persona_generation ==
    /\ Saved([workflow EXCEPT !.persona_generation_job_id = <<"job">>])
    /\ UNCHANGED generationCompleted

\* returns the workflow untouched when it is already surveying or completed
complete_persona_generation ==
    /\ workflow.status = "generating_personas"
    /\ Saved([workflow EXCEPT !.status = "surveying", !.current_step = 6])
    /\ generationCompleted' = TRUE

start_survey_execution ==
    /\ Saved([workflow EXCEPT !.survey_execution_job_id = <<"job">>])
    /\ UNCHANGED generationCompleted

complete_survey ==
    /\ workflow.status = "surveying"
    /\ Saved([workflow EXCEPT !.status = "completed", !.current_step = 7])
    /\ UNCHANGED generationCompleted

fail_workflow ==
    /\ Saved([workflow EXCEPT !.status = "failed"])
    /\ UNCHANGED generationCompleted

\* C30: a workflow reaches status SURVEYING only after persona generation
\* has completed for it: concepts can be set and confirmed only after
\* complete_persona_generation succeeded from GENERATING_PERSONAS, so no
\* path leads from sample-size selection to SURVEYING without that step.
C30_SurveyingAfterGeneration ==
    workflow.status \in {"concepts_management", "surveying", "completed"}
       => generationCompleted

\* ========================================================================
\* Specifications
\* ========================================================================
\* distribute_samples_by_archetype applied to every bounded input
nonAllocVars == <<limiterVars, validVars, costVars, surveyVars,
                  calcVars, orthoVars, genVars, targetedVars,
                  workerVars, weightVars, segmentVars, workflowVars>>
InitAlloc ==
    /\ AllocInputs /\ LimiterIdle /\ ValidatorIdle /\ CostIdle
    /\ SurveyIdle /\ CalcIdle /\ OrthoIdle /\ GenIdle /\ TargetedIdle
    /\ WorkersIdle /\ WeightsIdle /\ SegmentIdle /\ WorkflowIdle
NextAlloc ==
    /\ distribute_samples_by_archetype
    /\ UNCHANGED nonAllocVars
SpecAlloc == InitAlloc /\ [][NextAlloc]_vars

\* concurrent callers of acquire only
nonLimiterVars == <<allocVars, validVars, costVars, surveyVars,
                    calcVars, orthoVars, genVars, targetedVars,
                    workerVars, weightVars, segmentVars, workflowVars>>
InitLimiter ==
    /\ LimiterStart /\ AllocIdle /\ ValidatorIdle /\ CostIdle
    /\ SurveyIdle /\ CalcIdle /\ OrthoIdle /\ GenIdle /\ TargetedIdle
    /\ WorkersIdle /\ WeightsIdle /\ SegmentIdle /\ WorkflowIdle
NextAcquire ==
    \/ (\E t \in Threads : AcquireStep(t)) /\ UNCHANGED nonLimiterVars
    \/ Tick /\ UNCHANGED nonLimiterVars
SpecAcquire == InitLimiter /\ [][NextAcquire]_vars

\* callers of acquire, report_actual_usage and reset
NextLimiter ==
    \/ (\E t \in Threads : AcquireStep(t)) /\ UNCHANGED nonLimiterVars
    \/ (\E t \in Threads : ReportStep(t)) /\ UNCHANGED nonLimiterVars
    \/ (\E t \in Threads : ResetStep(t)) /\ UNCHANGED nonLimiterVars
    \/ Tick /\ UNCHANGED nonLimiterVars
SpecLimiter == InitLimiter /\ [][NextLimiter]_vars

\* validate_llm_response applied to every bounded text
nonValidVars == <<allocVars, limiterVars, costVars, surveyVars,
                  calcVars, orthoVars, genVars, targetedVars,
                  workerVars, weightVars, segmentVars, workflowVars>>
InitValidate ==
    /\ ValidatorInputs /\ AllocIdle /\ LimiterIdle /\ CostIdle
    /\ SurveyIdle /\ CalcIdle /\ OrthoIdle /\ GenIdle /\ TargetedIdle
    /\ WorkersIdle /\ WeightsIdle /\ SegmentIdle /\ WorkflowIdle
NextValidate ==
    /\ Validate
    /\ UNCHANGED nonValidVars
SpecValidate == InitValidate /\ [][NextValidate]_vars

\* a cost tracker used directly
nonCostVars == <<allocVars, limiterVars, validVars, surveyVars,
                 calcVars, orthoVars, genVars, targetedVars,
                 workerVars, weightVars, segmentVars, workflowVars>>
InitCost ==
    /\ CostIdle /\ AllocIdle /\ LimiterIdle /\ ValidatorIdle
    /\ SurveyIdle /\ CalcIdle /\ OrthoIdle /\ GenIdle /\ TargetedIdle
    /\ WorkersIdle /\ WeightsIdle /\ SegmentIdle /\ WorkflowIdle
NextCost ==
    \/ RecordAny /\ UNCHANGED nonCostVars
    \/ reset /\ UNCHANGED nonCostVars
SpecCost == InitCost /\ [][NextCost]_vars

\* one direct call of get_purchase_opinion_with_retry
nonSurveyVars == <<allocVars, limiterVars, validVars, calcVars,
                   orthoVars, genVars, targetedVars, workerVars,
                   weightVars, segmentVars, workflowVars>>
InitRetry ==
    /\ RetryStart /\ CostIdle /\ AllocIdle /\ LimiterIdle
    /\ ValidatorIdle /\ CalcIdle /\ OrthoIdle /\ GenIdle
    /\ TargetedIdle /\ WorkersIdle /\ WeightsIdle /\ SegmentIdle
    /\ WorkflowIdle
NextRetry ==
    \/ StartCycle /\ UNCHANGED nonSurveyVars
    \/ AttemptResponse /\ UNCHANGED nonSurveyVars
    \/ AttemptRateLimitError /\ UNCHANGED nonSurveyVars
    \/ AttemptAPIError /\ UNCHANGED nonSurveyVars
    \/ AttemptException /\ UNCHANGED nonSurveyVars
    \/ DirectReturn /\ UNCHANGED nonSurveyVars
SpecRetry == InitRetry /\ [][NextRetry]_vars

\* SSRPipeline.run_survey
InitSurvey ==
    /\ SurveyStart /\ CostIdle /\ AllocIdle /\ LimiterIdle
    /\ ValidatorIdle /\ CalcIdle /\ OrthoIdle /\ GenIdle
    /\ TargetedIdle /\ WorkersIdle /\ WeightsIdle /\ SegmentIdle
    /\ WorkflowIdle
NextSurvey ==
    \/ StartCycle /\ UNCHANGED nonSurveyVars
    \/ AttemptResponse /\ UNCHANGED nonSurveyVars
    \/ AttemptRateLimitError /\ UNCHANGED nonSurveyVars
    \/ AttemptAPIError /\ UNCHANGED nonSurveyVars
    \/ AttemptException /\ UNCHANGED nonSurveyVars
    \/ CollectResponse /\ UNCHANGED nonSurveyVars
    \/ ScoreAndAggregate /\ UNCHANGED nonSurveyVars
    \/ ScoringRaises /\ UNCHANGED nonSurveyVars
SpecSurvey == InitSurvey /\ [][NextSurvey]_vars

\* an SSRCalculator and its callers
nonCalcVars == <<allocVars, limiterVars, validVars, costVars,
                 surveyVars, orthoVars, genVars, targetedVars,
                 workerVars, weightVars, segmentVars, workflowVars>>
InitCalc ==
    /\ CalcNew /\ AllocIdle /\ LimiterIdle /\ ValidatorIdle
    /\ CostIdle /\ SurveyIdle /\ OrthoIdle /\ GenIdle /\ TargetedIdle
    /\ WorkersIdle /\ WeightsIdle /\ SegmentIdle /\ WorkflowIdle
NextCalc ==
    \/ initialize_anchors /\ UNCHANGED nonCalcVars
    \/ set_anchor_embeddings /\ UNCHANGED nonCalcVars
    \/ calculate /\ UNCHANGED nonCalcVars
    \/ calculate_simple /\ UNCHANGED nonCalcVars
    \/ calculate_projection /\ UNCHANGED nonCalcVars
    \/ calculate_projection_with_outlier_detection /\ UNCHANGED nonCalcVars
    \/ calculate_batch /\ UNCHANGED nonCalcVars
    \/ calculate_batch_with_outlier_detection /\ UNCHANGED nonCalcVars
SpecCalc == InitCalc /\ [][NextCalc]_vars

\* validate_anchor_orthogonality applied to every pair of embeddings
nonOrthoVars == <<allocVars, limiterVars, validVars, costVars,
                  surveyVars, calcVars, genVars, targetedVars,
                  workerVars, weightVars, segmentVars, workflowVars>>
InitOrtho ==
    /\ OrthoInputs /\ AllocIdle /\ LimiterIdle /\ ValidatorIdle
    /\ CostIdle /\ SurveyIdle /\ CalcIdle /\ GenIdle /\ TargetedIdle
    /\ WorkersIdle /\ WeightsIdle /\ SegmentIdle /\ WorkflowIdle
NextOrtho ==
    /\ validate_anchor_orthogonality
    /\ UNCHANGED nonOrthoVars
SpecOrtho == InitOrtho /\ [][NextOrtho]_vars

\* population generation called repeatedly in one process
nonGenVars == <<allocVars, limiterVars, validVars, costVars,
                surveyVars, calcVars, orthoVars, targetedVars,
                workerVars, weightVars, segmentVars, workflowVars>>
InitGen ==
    /\ GenStart /\ AllocIdle /\ LimiterIdle /\ ValidatorIdle
    /\ CostIdle /\ SurveyIdle /\ CalcIdle /\ OrthoIdle /\ TargetedIdle
    /\ WorkersIdle /\ WeightsIdle /\ SegmentIdle /\ WorkflowIdle
NextGen ==
    \/ generate_synthetic_sample /\ UNCHANGED nonGenVars
    \/ generate_personas_for_archetype /\ UNCHANGED nonGenVars
    \/ generate_enriched_personas_from_archetypes /\ UNCHANGED nonGenVars
SpecGen == InitGen /\ [][NextGen]_vars

\* one call of generate_personas_targeted
nonTargetedVars == <<allocVars, limiterVars, validVars, costVars,
                     surveyVars, calcVars, orthoVars, genVars,
                     workerVars, weightVars, segmentVars,
                     workflowVars>>
InitTargeted ==
    /\ TargetedStart /\ AllocIdle /\ LimiterIdle /\ ValidatorIdle
    /\ CostIdle /\ SurveyIdle /\ CalcIdle /\ OrthoIdle /\ GenIdle
    /\ WorkersIdle /\ WeightsIdle /\ SegmentIdle /\ WorkflowIdle
NextTargeted ==
    \/ TargetedAttempt /\ UNCHANGED nonTargetedVars
    \/ TargetedExit /\ UNCHANGED nonTargetedVars
SpecTargeted == InitTargeted /\ [][NextTargeted]_vars

\* worker threads calling record_call on one shared CostTracker
nonWorkerVars == <<allocVars, limiterVars, validVars, surveyVars,
                   calcVars, orthoVars, genVars, targetedVars,
                   weightVars, segmentVars, workflowVars>>
InitWorkers ==
    /\ WorkersStart /\ CostIdle /\ AllocIdle /\ LimiterIdle
    /\ ValidatorIdle /\ SurveyIdle /\ CalcIdle /\ OrthoIdle /\ GenIdle
    /\ TargetedIdle /\ WeightsIdle /\ SegmentIdle /\ WorkflowIdle
NextWorkers ==
    \/ (\E t \in Threads, cost \in 1..MaxCost : WorkerCall(t, cost)) /\ UNCHANGED nonWorkerVars
    \/ (\E t \in Threads : WorkerStep(t)) /\ UNCHANGED nonWorkerVars
SpecWorkers == InitWorkers /\ [][NextWorkers]_vars

\* categorical sampling applied to every bounded weight list
nonWeightVars == <<allocVars, limiterVars, validVars, costVars,
                   surveyVars, calcVars, orthoVars, genVars,
                   targetedVars, workerVars, segmentVars,
                   workflowVars>>
InitWeights ==
    /\ WeightInputs /\ AllocIdle /\ LimiterIdle /\ ValidatorIdle
    /\ CostIdle /\ SurveyIdle /\ CalcIdle /\ OrthoIdle /\ GenIdle
    /\ TargetedIdle /\ WorkersIdle /\ SegmentIdle /\ WorkflowIdle
NextWeights ==
    /\ SampleCategory
    /\ UNCHANGED nonWeightVars
SpecWeights == InitWeights /\ [][NextWeights]_vars

\* segment sets on their way to allocation
nonSegmentVars == <<allocVars, limiterVars, validVars, costVars,
                    surveyVars, calcVars, orthoVars, genVars,
                    targetedVars, workerVars, weightVars,
                    workflowVars>>
InitSegment ==
    /\ SegmentInputs /\ AllocIdle /\ LimiterIdle /\ ValidatorIdle
    /\ CostIdle /\ SurveyIdle /\ CalcIdle /\ OrthoIdle /\ GenIdle
    /\ TargetedIdle /\ WorkersIdle /\ WeightsIdle /\ WorkflowIdle
NextSegment ==
    \/ run_full_pipeline /\ UNCHANGED nonSegmentVars
    \/ distribute_samples /\ UNCHANGED nonSegmentVars
SpecSegment == InitSegment /\ [][NextSegment]_vars

\* the operations of WorkflowService on one workflow
nonWorkflowVars == <<allocVars, limiterVars, validVars, costVars,
                     surveyVars, calcVars, orthoVars, genVars,
                     targetedVars, workerVars, weightVars,
                     segmentVars>>
InitWorkflow ==
    /\ create_workflow /\ AllocIdle /\ LimiterIdle /\ ValidatorIdle
    /\ CostIdle /\ SurveyIdle /\ CalcIdle /\ OrthoIdle /\ GenIdle
    /\ TargetedIdle /\ WorkersIdle /\ WeightsIdle /\ SegmentIdle
NextWorkflow ==
    \/ update_product /\ UNCHANGED nonWorkflowVars
    \/ update_core_persona /\ UNCHANGED nonWorkflowVars
    \/ confirm_persona /\ UNCHANGED nonWorkflowVars
    \/ set_sample_size /\ UNCHANGED nonWorkflowVars
    \/ update_concepts /\ UNCHANGED nonWorkflowVars
    \/ confirm_concepts /\ UNCHANGED nonWorkflowVars
    \/ start_persona_generation /\ UNCHANGED nonWorkflowVars
    \/ complete_persona_generation /\ UNCHANGED nonWorkflowVars
    \/ start_survey_execution /\ UNCHANGED nonWorkflowVars
    \/ complete_survey /\ UNCHANGED nonWorkflowVars
    \/ fail_workflow /\ UNCHANGED nonWorkflowVars
SpecWorkflow == InitWorkflow /\ [][NextWorkflow]_vars

\* ========================================================================
\* acquire under fair scheduling, with the clock running on for ever
\* ========================================================================
\* ticks after which an empty bucket is full again
FullTicks ==
    Max(CeilDiv(request_capacity, refill_per_tick_requests),
        CeilDiv(token_capacity, refill_per_tick_tokens))

\* the smallest estimated_tokens above the capacity of the token bucket
LargeEst == (token_capacity \div OneToken) + 1

\* a time stamp seen one tick later, the clock reading staying at MaxTime;
\* stamps older than FullTicks have the same effect as one FullTicks old
Aged(stamp) == Max(stamp - 1, MaxTime - FullTicks)

\* the wall clock advances; from MaxTime on the origin of time moves instead
TickOn ==
    /\ IF now < MaxTime
       THEN /\ now' = now + 1
            /\ UNCHANGED <<last_refill, loc, reqDepletedAt, tokDepletedAt>>
       ELSE /\ now' = now
            /\ last_refill' = Aged(last_refill)
            /\ loc' = [t \in Threads |->
                         IF pc[t] = "sleeping" /\ loc[t].wakeAt > now
                         THEN [loc[t] EXCEPT !.wakeAt = @ - 1] ELSE loc[t]]
            /\ reqDepletedAt' = {Aged(d) : d \in reqDepletedAt}
            /\ tokDepletedAt' = {Aged(d) : d \in tokDepletedAt}
    /\ UNCHANGED <<limiterKind, request_tokens, token_tokens, reqRefilled,
                   tokRefilled, lock, stats, pc, callsLeft, running, grants,
                   grantedTokens>>

NextAcquireLive ==
    \/ (\E t \in Threads : AcquireStep(t)) /\ UNCHANGED nonLimiterVars
    \/ (\E t \in Threads : AcquireCall(t, LargeEst)) /\ UNCHANGED nonLimiterVars
    \/ TickOn /\ UNCHANGED nonLimiterVars

\* time advances, every caller keeps running, and a caller that finds the
\* lock free again and again obtains it
FairAcquire ==
    /\ WF_vars(TickOn /\ UNCHANGED nonLimiterVars)
    /\ \A t \in Threads :
         /\ WF_vars(AcquireStep(t) /\ UNCHANGED nonLimiterVars)
         /\ SF_vars(AcquireLock(t) /\ UNCHANGED nonLimiterVars)

SpecAcquireLive == InitLimiter /\ [][NextAcquireLive]_vars /\ FairAcquire

\* C22: every call to acquire(estimated_tokens) is eventually granted,
\* whatever estimated_tokens is: a caller that entered acquire returns.
C22_EveryAcquireGranted ==
    \A t \in Threads : (pc[t] = "lock") ~> (pc[t] = "idle")

\* the same callers when none asks for more than MaxEst tokens, which the
\* token bucket can hold: there every call is granted
NextAcquireFair ==
    \/ (\E t \in Threads : AcquireStep(t)) /\ UNCHANGED nonLimiterVars
    \/ TickOn /\ UNCHANGED nonLimiterVars
SpecAcquireFair == InitLimiter /\ [][NextAcquireFair]_vars /\ FairAcquire
====
